---- MODULE Spec2Model ----
(***************************************************************************)
(* Golia: the HTML node tree (HTMLNode), its attribute normalisation and   *)
(* its pretty-printing renderer, the HTML document with its nested         *)
(* elements and the Container with its proxies and with-blocks, modelled   *)
(* from src/golia.py; the HTML-to-builder transpiler, modelled from        *)
(* src/derender.py.                                                        *)
(*                                                                         *)
(* Text is modelled as a sequence of one-character strings, so that the    *)
(* character-level rules of the code (strip a trailing underscore, turn    *)
(* underscores into hyphens, build key="value" tokens, indent with tabs)   *)
(* are computed and not assumed.  A Python value is a record tagged with   *)
(* its type: [t |-> "none"], [t |-> "str", s |-> chars],                   *)
(* [t |-> "bool", b |-> TRUE], [t |-> "int", n |-> 7],                     *)
(* [t |-> "list", items |-> <<...>>], [t |-> "dict", items |-> <<...>>]    *)
(* where a dict keeps its <<key, value>> pairs in insertion order.         *)
(***************************************************************************)
EXTENDS Integers, Sequences, FiniteSets, TLC

VARIABLES
    nodes,   \* the heap of HTMLNode objects: a sequence, a node's id is its index
    html,    \* the HTML document: ids of head_root, body_root, current_node (0 = None)
    ret,     \* the last call: its arguments, the exception it raised or the node
             \* it returned
    container,  \* the Container: its _context_stack (node ids), the with-blocks
                \* that are open, and a second Component to merge
    ghost,   \* history of the calls made on the document: the nested scopes that
             \* were started and not yet ended
    scan     \* the run of derender._parse_section: its input, the position of
             \* the scan, and its locals lines, indent and stack

vars == <<nodes, html, ret, container, ghost, scan>>

\* the state outside the node heap, the document and the last call
others == <<container, ghost, scan>>

(***************************************************************************)
(* Bounds of the model.                                                    *)
(***************************************************************************)
MaxAttrs == 3      \* entries of the attribute mapping explored by SpecAttr
MaxNodes == 4      \* HTMLNode objects on the heap in Spec (the two roots included)
MaxRenderNodes == 4  \* HTMLNode objects of the tree rendered in SpecRender
MaxErrNodes == 3   \* HTMLNode objects on the heap in SpecErr (the two roots included)
MaxCtorNodes == 1  \* HTMLNode objects constructed directly in SpecCtor
MaxIndent == 1     \* indent_level values given to render: 0..MaxIndent

(***************************************************************************)
(* Text.                                                                   *)
(***************************************************************************)
TAB == "\t"
NL == "\n"

s_empty == << >>
s_klass == <<"k","l","a","s","s">>
s_class == <<"c","l","a","s","s">>
s_klass_ == <<"k","l","a","s","s","_">>
s_content == <<"c","o","n","t","e","n","t">>
s_async_ == <<"a","s","y","n","c","_">>
s_async == <<"a","s","y","n","c">>
s_data_x == <<"d","a","t","a","_","x">>
s_id == <<"i","d">>
s_hi == <<"h","i">>
s_v == <<"v">>
s_x == <<"x">>
s_True == <<"T","r","u","e">>
s_False == <<"F","a","l","s","e">>
s_None == <<"N","o","n","e">>

s_head == <<"h","e","a","d">>
s_body == <<"b","o","d","y">>
s_p == <<"p">>
s_div == <<"d","i","v">>
s_script == <<"s","c","r","i","p","t">>
s_br_ == <<"b","r","_">>

s_meta == <<"m","e","t","a">>
s_img == <<"i","m","g">>
s_br == <<"b","r">>
s_hr == <<"h","r">>
s_input == <<"i","n","p","u","t">>
s_link == <<"l","i","n","k">>
s_area == <<"a","r","e","a">>
s_base == <<"b","a","s","e">>
s_col == <<"c","o","l">>
s_embed == <<"e","m","b","e","d">>
s_param == <<"p","a","r","a","m">>
s_source == <<"s","o","u","r","c","e">>
s_track == <<"t","r","a","c","k">>
s_wbr == <<"w","b","r">>
s_command == <<"c","o","m","m","a","n","d">>
s_keygen == <<"k","e","y","g","e","n">>
s_menuitem == <<"m","e","n","u","i","t","e","m">>

s_span == <<"s","p","a","n">>
s_a == <<"a">>
s_strong == <<"s","t","r","o","n","g">>
s_em == <<"e","m">>
s_code == <<"c","o","d","e">>
s_small == <<"s","m","a","l","l">>
s_b == <<"b">>
s_i == <<"i">>
s_u == <<"u">>
s_mark == <<"m","a","r","k">>
s_sub == <<"s","u","b">>
s_sup == <<"s","u","p">>
s_time == <<"t","i","m","e">>
s_data == <<"d","a","t","a">>
s_label == <<"l","a","b","e","l">>
s_abbr == <<"a","b","b","r">>
s_cite == <<"c","i","t","e">>
s_q == <<"q">>
s_samp == <<"s","a","m","p">>
s_var == <<"v","a","r">>
s_kbd == <<"k","b","d">>
s_s == <<"s">>
s_del == <<"d","e","l">>
s_ins == <<"i","n","s">>

\* str.endswith('_')
EndsWithUnderscore(s) == Len(s) > 0 /\ s[Len(s)] = "_"

\* s[:-1] if s.endswith('_') else s
StripUnderscore(s) == IF EndsWithUnderscore(s) THEN SubSeq(s, 1, Len(s) - 1) ELSE s

\* s.replace('_', '-')
ReplaceUnderscore(s) == [i \in 1..Len(s) |-> IF s[i] = "_" THEN "-" ELSE s[i]]

\* "\t" * n
RECURSIVE Rep(_, _)
Rep(c, n) == IF n <= 0 THEN << >> ELSE <<c>> \o Rep(c, n - 1)

\* sep.join(parts)
RECURSIVE Join(_, _)
Join(sep, parts) ==
    IF Len(parts) = 0 THEN << >>
    ELSE IF Len(parts) = 1 THEN parts[1]
    ELSE parts[1] \o sep \o Join(sep, Tail(parts))

\* ''.join(parts)
Concat(parts) == Join(<< >>, parts)

IsPrefix(p, s) == Len(p) <= Len(s) /\ SubSeq(s, 1, Len(p)) = p

Contains(s, c) == \E i \in 1..Len(s) : s[i] = c

(***************************************************************************)
(* Python values.                                                          *)
(***************************************************************************)
None == [t |-> "none"]
PyTrue == [t |-> "bool", b |-> TRUE]
PyFalse == [t |-> "bool", b |-> FALSE]
Str(s) == [t |-> "str", s |-> s]
PyInt(n) == [t |-> "int", n |-> n]
List(items) == [t |-> "list", items |-> items]
Dict(items) == [t |-> "dict", items |-> items]

\* the decimal digits of a natural number
Digit(d) == <<"0","1","2","3","4","5","6","7","8","9">>[d + 1]
RECURSIVE Digits(_)
Digits(n) == IF n < 10 THEN <<Digit(n)>> ELSE Digits(n \div 10) \o <<Digit(n % 10)>>

\* str(v), for the values the model uses (lists of ints, dicts are not formatted)
RECURSIVE PyStr(_)
PyStr(v) ==
    CASE v.t = "str" -> v.s
      [] v.t = "bool" -> IF v.b THEN s_True ELSE s_False
      [] v.t = "int" -> Digits(v.n)
      [] v.t = "none" -> s_None
      [] v.t = "list" ->
            <<"[">> \o Join(<<",", " ">>, [i \in 1..Len(v.items) |-> PyStr(v.items[i])])
                    \o <<"]">>

\* bool(v): Python truthiness
Truthy(v) ==
    CASE v.t = "none" -> FALSE
      [] v.t = "bool" -> v.b
      [] v.t = "int" -> v.n # 0
      [] v.t = "str" -> Len(v.s) > 0
      [] v.t = "list" -> Len(v.items) > 0
      [] v.t = "dict" -> Len(v.items) > 0

\* hasattr(v, 'copy'): dict and list have a copy method, str/int/bool/None have none
HasCopy(v) == v.t \in {"dict", "list"}

(***************************************************************************)
(* Python dict: <<key, value>> pairs in insertion order.                   *)
(***************************************************************************)
DictHas(items, k) == \E i \in 1..Len(items) : items[i][1] = k

DictIndex(items, k) == CHOOSE i \in 1..Len(items) : items[i][1] = k

DictGet(items, k) == items[DictIndex(items, k)][2]

\* d[k] = v moved to the end on overwrite: what a delete-then-insert would do
DictSetMoveToEnd(items, k, v) ==
    Append(SelectSeq(items, LAMBDA e : e[1] # k), <<k, v>>)

\* d[k] = v: an existing key keeps its position and takes the new value,
\* a new key is appended
DictSet(items, k, v) ==
    IF DictHas(items, k)
    THEN [i \in 1..Len(items) |-> IF items[i][1] = k THEN <<k, v>> ELSE items[i]]
    ELSE Append(items, <<k, v>>)

DictKeys(items) == [i \in 1..Len(items) |-> items[i][1]]

(***************************************************************************)
(* HTMLNode.                                                               *)
(***************************************************************************)
VOID_ELEMENTS ==
    { s_meta, s_img, s_br, s_hr, s_input, s_link, s_area, s_base, s_col,
      s_embed, s_param, s_source, s_track, s_wbr, s_command, s_keygen, s_menuitem }

INLINE_ELEMENTS ==
    { s_span, s_a, s_strong, s_em, s_code, s_small, s_b, s_i, s_u, s_mark,
      s_sub, s_sup, s_time, s_data, s_label, s_abbr, s_cite, s_q, s_samp,
      s_var, s_kbd, s_s, s_del, s_ins }

\* s.rstrip('_')
RECURSIVE RStripUnderscores(_)
RStripUnderscores(s) ==
    IF EndsWithUnderscore(s) THEN RStripUnderscores(SubSeq(s, 1, Len(s) - 1)) ELSE s

\* self.tag = tag.rstrip('_') if tag else tag: every trailing underscore removed
StoredTagRStrip(tag) ==
    IF Truthy(tag) THEN Str(RStripUnderscores(tag.s)) ELSE tag

\* self.tag = tag[:-1] if tag and tag.endswith('_') else tag
StoredTag(tag) ==
    IF Truthy(tag) /\ EndsWithUnderscore(tag.s) THEN Str(StripUnderscore(tag.s)) ELSE tag

\* self.tag in self.VOID_ELEMENTS, computed from the written tag: the stored tag
\* has lost its trailing underscore, the written one has not
IsVoidOfWrittenTag(tag, stored) == tag.t = "str" /\ tag.s \in VOID_ELEMENTS

\* self.is_void = self.tag in self.VOID_ELEMENTS
IsVoidTag(tag, stored) == stored.t = "str" /\ stored.s \in VOID_ELEMENTS

\* self.inline = self.tag in self.INLINE_ELEMENTS if self.tag else False
IsInlineTag(stored) == IF Truthy(stored) THEN stored.s \in INLINE_ELEMENTS ELSE FALSE

\* the fields HTMLNode.__init__ sets, `attr` being the value stored in self.attr
NodeRecord(tag, content, attr, parent) ==
    [tag |-> StoredTag(tag),
     content |-> PyStr(content),
     attr |-> attr,
     parent |-> parent,
     children |-> << >>,
     is_void |-> IsVoidTag(tag, StoredTag(tag)),
     is_text_node |-> (StoredTag(tag) = None),
     inline |-> IsInlineTag(StoredTag(tag)),
     force_inline |-> FALSE]

\* __init__ with self.attr = attr.copy() if attr is not None else {}: every
\* value but None is copied, so a falsy value without a copy method raises
HTMLNode_initCopyUnlessNone(tag, content, attr, parent) ==
    IF attr # None /\ ~HasCopy(attr)
    THEN [exc |-> "AttributeError"]
    ELSE [exc |-> "none",
          node |-> NodeRecord(tag, content, IF attr # None THEN attr ELSE Dict(<< >>),
                              parent)]

\* HTMLNode.__init__(tag, content, attr, parent): the exception it raises, or the
\* node it builds.  str(content) accepts every value; attr.copy() is called on
\* any truthy attr, so a truthy value without a copy method raises
\* AttributeError and a list is stored as it is.
HTMLNode_init(tag, content, attr, parent) ==
    IF Truthy(attr) /\ ~HasCopy(attr)
    THEN [exc |-> "AttributeError"]
    ELSE [exc |-> "none",
          node |-> NodeRecord(tag, content, IF Truthy(attr) THEN attr ELSE Dict(<< >>),
                              parent)]

(***************************************************************************)
(* HTMLNode._convert_attributes.                                           *)
(***************************************************************************)
\* a key whose trailing underscore is not removed before the replacement
new_key_no_strip(key) == ReplaceUnderscore(key)

\* new_key = key[:-1] if key.endswith('_') else key; new_key.replace('_', '-')
new_key(key) == ReplaceUnderscore(StripUnderscore(key))

\* the name under which one raw key is stored in `converted`
ConvertedName(key) == IF key = Str(s_klass) THEN Str(s_class) ELSE Str(new_key(key.s))

\* one turn of the loop over self.attr.items()
ConvertStep(converted, key, value) ==
    IF key = Str(s_klass)
    THEN DictSet(converted, Str(s_class), value)
    ELSE IF value = PyTrue
         THEN DictSet(converted, Str(new_key(key.s)), None)
         ELSE DictSet(converted, Str(new_key(key.s)), value)

\* the loop over self.attr.items(), from an empty `converted`
RECURSIVE ConvertLoop(_, _)
ConvertLoop(converted, items) ==
    IF Len(items) = 0 THEN converted
    ELSE ConvertLoop(ConvertStep(converted, items[1][1], items[1][2]), Tail(items))

\* if self.tag == "meta" and 'content' in converted and converted['content'] is True
MetaContent(tag, converted) ==
    IF /\ tag = Str(s_meta)
       /\ DictHas(converted, Str(s_content))
       /\ DictGet(converted, Str(s_content)) = PyTrue
    THEN DictSet(converted, Str(s_content), Str(s_empty))
    ELSE converted

\* the `converted` dict of a node
Converted(node) == MetaContent(node.tag, ConvertLoop(<< >>, node.attr.items))

\* one element of attr_parts
AttrPart(key, value) ==
    IF value = None THEN key.s
    ELSE key.s \o <<"=", "\"">> \o PyStr(value) \o <<"\"">>

\* attr_parts
AttrParts(node) ==
    LET c == Converted(node) IN [i \in 1..Len(c) |-> AttrPart(c[i][1], c[i][2])]

\* ' '.join(attr_parts) if attr_parts else ''
convert_attributes(node) == Join(<<" ">>, AttrParts(node))

(***************************************************************************)
(* HTMLNode.render.  `ns` is the heap the node lives in.                   *)
(***************************************************************************)
\* current_inline, with the node's own _force_inline flag forgotten
CurrentInlineNoForce(node, parent_inline) == node.inline \/ parent_inline

\* current_inline = self.inline or self._force_inline or parent_inline
CurrentInline(node, parent_inline) == node.inline \/ node.force_inline \/ parent_inline

\* f"{indent}<{self.tag}" followed by f" {attr_str}" when attr_str is not empty
OpeningTag(node, indent_level) ==
    Rep(TAB, indent_level) \o <<"<">> \o node.tag.s
        \o (IF Len(convert_attributes(node)) > 0
            THEN <<" ">> \o convert_attributes(node) ELSE << >>)

\* a render whose children are not indented one level deeper than their parent
RECURSIVE render_unindented(_, _, _, _)
render_unindented(ns, n, indent_level, parent_inline) ==
    LET node == ns[n]
        indent == Rep(TAB, indent_level)
        current_inline == CurrentInline(node, parent_inline)
        children_content ==
            IF Len(node.children) > 0
            THEN IF current_inline
                 THEN Concat([i \in 1..Len(node.children) |->
                                  render_unindented(ns, node.children[i], 0, current_inline)])
                 ELSE <<NL>>
                      \o Join(<<NL>>, [i \in 1..Len(node.children) |->
                                  render_unindented(ns, node.children[i], indent_level,
                                                    current_inline)])
                      \o <<NL>> \o indent
            ELSE IF Len(node.content) > 0 THEN node.content ELSE << >>
    IN  IF node.is_text_node THEN indent \o node.content
        ELSE IF node.is_void THEN OpeningTag(node, indent_level) \o <<" ", "/", ">">>
        ELSE OpeningTag(node, indent_level) \o <<">">> \o children_content
                 \o <<"<", "/">> \o node.tag.s \o <<">">>

\* a render that emits the content of an element before its children
RECURSIVE render_content_first(_, _, _, _)
render_content_first(ns, n, indent_level, parent_inline) ==
    LET node == ns[n]
        indent == Rep(TAB, indent_level)
        current_inline == CurrentInline(node, parent_inline)
        children_content ==
            IF Len(node.children) > 0
            THEN IF current_inline
                 THEN Concat([i \in 1..Len(node.children) |->
                                  render_content_first(ns, node.children[i], 0,
                                                       current_inline)])
                 ELSE <<NL>>
                      \o Join(<<NL>>, [i \in 1..Len(node.children) |->
                                  render_content_first(ns, node.children[i], indent_level + 1,
                                                       current_inline)])
                      \o <<NL>> \o indent
            ELSE << >>
    IN  IF node.is_text_node THEN indent \o node.content
        ELSE IF node.is_void THEN OpeningTag(node, indent_level) \o <<" ", "/", ">">>
        ELSE OpeningTag(node, indent_level) \o <<">">> \o node.content \o children_content
                 \o <<"<", "/">> \o node.tag.s \o <<">">>

RECURSIVE render(_, _, _, _)
render(ns, n, indent_level, parent_inline) ==
    LET node == ns[n]
        indent == Rep(TAB, indent_level)
        current_inline == CurrentInline(node, parent_inline)
        children_content ==
            IF Len(node.children) > 0
            THEN IF current_inline
                 THEN Concat([i \in 1..Len(node.children) |->
                                  render(ns, node.children[i], 0, current_inline)])
                 ELSE <<NL>>
                      \o Join(<<NL>>, [i \in 1..Len(node.children) |->
                                  render(ns, node.children[i], indent_level + 1,
                                         current_inline)])
                      \o <<NL>> \o indent
            ELSE IF Len(node.content) > 0 THEN node.content ELSE << >>
    IN  IF node.is_text_node THEN indent \o node.content
        ELSE IF node.is_void THEN OpeningTag(node, indent_level) \o <<" ", "/", ">">>
        ELSE OpeningTag(node, indent_level) \o <<">">> \o children_content
                 \o <<"<", "/">> \o node.tag.s \o <<">">>

(***************************************************************************)
(* The tree: ids, descendants.                                             *)
(***************************************************************************)
Ids == 1..Len(nodes)

RECURSIVE DescendantsIn(_, _)
DescendantsIn(ns, n) ==
    LET kids == {ns[n].children[i] : i \in 1..Len(ns[n].children)}
    IN  kids \cup UNION {DescendantsIn(ns, c) : c \in kids}

Descendants(n) == DescendantsIn(nodes, n)

(***************************************************************************)
(* Operations.                                                             *)
(***************************************************************************)
NoCall == [op |-> "none"]

\* no Container, no call history, no transpiler run
NoContainer == [context_stack |-> << >>]
NoGhost == [open |-> 0]
NoScan == [pos |-> 0]
Idle == container = NoContainer /\ ghost = NoGhost /\ scan = NoScan

\* isinstance(content, (str, int, float, bool))
IsContentType(content) == content.t \in {"str", "int", "float", "bool"}

\* attr is not None and not isinstance(attr, dict)
IsBadAttr(attr) == attr # None /\ attr.t # "dict"

\* the two isinstance checks of add_child, made on the element branch only
TypeCheckFailsElementOnly(tag, content, attr) ==
    ~IsContentType(content) \/ (tag # None /\ IsBadAttr(attr))

\* the two isinstance checks that open add_child, before the tag is looked at
TypeCheckFails(tag, content, attr) == ~IsContentType(content) \/ IsBadAttr(attr)

\* self.children.insert(0, child)
PrependChild(children, child) == <<child>> \o children

\* self.children.append(child)
AppendChild(children, child) == Append(children, child)

\* the node add_child constructs: a text node drops attr, an element keeps it
ChildInit(self, tag, content, attr) ==
    IF tag = None
    THEN HTMLNode_init(None, Str(PyStr(content)), None, self)
    ELSE HTMLNode_init(tag, Str(PyStr(content)), attr, self)

\* the heap after a successful add_child: the new node, appended to self.children
add_child_nodes(self, tag, content, attr) ==
    [Append(nodes, ChildInit(self, tag, content, attr).node)
        EXCEPT ![self].children = AppendChild(@, Len(nodes) + 1)]

\* HTMLNode.add_child(self, tag, content, attr)
add_child(self, tag, content, attr) ==
    IF TypeCheckFails(tag, content, attr)
    THEN /\ ret' = [op |-> "add_child", self |-> self, tag |-> tag, content |-> content,
                    attr |-> attr, exc |-> "TypeError", node |-> 0]
         /\ UNCHANGED <<nodes, html, others>>
    ELSE /\ ChildInit(self, tag, content, attr).exc = "none"
         /\ nodes' = add_child_nodes(self, tag, content, attr)
         /\ ret' = [op |-> "add_child", self |-> self, tag |-> tag, content |-> content,
                    attr |-> attr, exc |-> "none", node |-> Len(nodes) + 1]
         /\ UNCHANGED <<html, others>>

\* HTMLNode(tag, content, attr): a node constructed directly, outside any tree
Construct(tag, content, attr) ==
    LET r == HTMLNode_init(tag, content, attr, 0)
    IN  IF r.exc # "none"
        THEN /\ ret' = [op |-> "HTMLNode", tag |-> tag, content |-> content,
                        attr |-> attr, exc |-> r.exc, node |-> 0]
             /\ UNCHANGED <<nodes, html, others>>
        ELSE /\ nodes' = Append(nodes, r.node)
             /\ ret' = [op |-> "HTMLNode", tag |-> tag, content |-> content,
                        attr |-> attr, exc |-> "none", node |-> Len(nodes) + 1]
             /\ UNCHANGED <<html, others>>

\* force_inline whose cascade stops at the children: child._force_inline = True
\* in place of child.force_inline(True)
force_inline_nodes_shallow(self, recursive) ==
    LET kids == {nodes[self].children[i] : i \in 1..Len(nodes[self].children)}
        hit == IF recursive THEN {self} \cup kids ELSE {self}
    IN  [i \in 1..Len(nodes) |->
            IF i \in hit THEN [nodes[i] EXCEPT !.force_inline = TRUE] ELSE nodes[i]]

\* the heap after force_inline: self._force_inline = True, and with `recursive`
\* child.force_inline(True) for every child, hence for every descendant
force_inline_nodes(self, recursive) ==
    LET hit == IF recursive THEN {self} \cup Descendants(self) ELSE {self}
    IN  [i \in 1..Len(nodes) |->
            IF i \in hit THEN [nodes[i] EXCEPT !.force_inline = TRUE] ELSE nodes[i]]

\* HTMLNode.force_inline(self, recursive)
force_inline(self, recursive) ==
    /\ nodes' = force_inline_nodes(self, recursive)
    /\ UNCHANGED <<html, ret, others>>

\* ElementProperty.attr(**{key: value}) / HTMLProxy.attr(**{key: value}) on the
\* node n, a text node included: self.node.attr.update(kwargs); on an attr
\* that is not a dict the call raises AttributeError and changes nothing
attr_update(n, key, value) ==
    /\ nodes[n].attr.t = "dict" =>
           DictHas(nodes[n].attr.items, key) \/ Len(nodes[n].attr.items) < MaxAttrs
    /\ nodes' = IF nodes[n].attr.t = "dict"
                THEN [nodes EXCEPT ![n].attr = Dict(DictSet(@.items, key, value))]
                ELSE nodes
    /\ UNCHANGED <<html, ret, others>>

\* ElementProperty.ln() of a property whose node is n, ChainBuilder.ln() on a
\* proxy whose current node is n: self.node.inline = True
ln(n) ==
    /\ nodes' = [nodes EXCEPT ![n].inline = TRUE]
    /\ UNCHANGED <<html, ret, others>>

(***************************************************************************)
(* SpecAttr: one element node whose attribute mapping is built entry by    *)
(* entry; _convert_attributes is applied to every mapping reached.         *)
(***************************************************************************)
NoDocument == [head_root |-> 0, body_root |-> 0, current_node |-> 0]

AttrTags == {Str(s_meta), Str(s_script), Str(s_div)}

AttrKeys ==
    {Str(s_klass), Str(s_class), Str(s_async_), Str(s_content), Str(s_klass_), Str(s_data_x)}

AttrValues == {PyTrue, Str(s_v)}

InitAttr ==
    /\ \E tag \in AttrTags : nodes = <<HTMLNode_init(tag, Str(s_empty), None, 0).node>>
    /\ html = NoDocument
    /\ ret = NoCall
    /\ Idle

NextAttr == \E key \in AttrKeys, value \in AttrValues : attr_update(1, key, value)

SpecAttr == InitAttr /\ [][NextAttr]_vars

\* the raw <<key, value>> pairs of node n
Raw(n) == nodes[n].attr.items

\* node n carries a dict of attributes that render (an element, not a text node)
HasAttrs(n) == ~nodes[n].is_text_node /\ nodes[n].attr.t = "dict"

\* no other raw key of n is stored under the same converted name as its i-th key
Alone(n, i) ==
    \A j \in 1..Len(Raw(n)) :
        j # i => ConvertedName(Raw(n)[j][1]) # ConvertedName(Raw(n)[i][1])

\* the token `part` occurs in the attribute tokens of node n
HasToken(n, part) == \E j \in 1..Len(AttrParts(nodes[n])) : AttrParts(nodes[n])[j] = part

\* C3 (as claimed): every attribute whose value is True renders as the bare
\* normalized name, whatever the raw key, 'klass' included.  (The meta/content
\* pair, which C4 claims renders differently, and raw keys that share a
\* converted name are left out.)
C3_TrueRendersBare ==
    \A n \in Ids : HasAttrs(n) =>
        \A i \in 1..Len(Raw(n)) :
            ( /\ Raw(n)[i][2] = PyTrue
              /\ Alone(n, i)
              /\ ~(nodes[n].tag = Str(s_meta) /\ Raw(n)[i][1] = Str(s_content)) )
            => HasToken(n, ConvertedName(Raw(n)[i][1]).s)

\* C4 (as claimed): on a meta node, content=True renders as the token content=""
C4_MetaContentEmpty ==
    \A n \in Ids : HasAttrs(n) =>
        \A i \in 1..Len(Raw(n)) :
            ( /\ nodes[n].tag = Str(s_meta)
              /\ Raw(n)[i] = <<Str(s_content), PyTrue>>
              /\ Alone(n, i) )
            => HasToken(n, s_content \o <<"=", "\"", "\"">>)

\* the mapping obtained by storing every raw value under its normalized key
RECURSIVE Renamed(_, _)
Renamed(acc, items) ==
    IF Len(items) = 0 THEN acc
    ELSE Renamed(DictSet(acc, ConvertedName(items[1][1]), items[1][2]), Tail(items))

\* C5 (as claimed): normalizing the already-normalized mapping gives the same
\* ordered key names and the same tokens as the first normalization
C5_NormalizationIdempotent ==
    \A n \in Ids : HasAttrs(n) =>
        LET again == [nodes[n] EXCEPT !.attr = Dict(Renamed(<< >>, Raw(n)))]
        IN  /\ DictKeys(Converted(again)) = DictKeys(Converted(nodes[n]))
            /\ AttrParts(again) = AttrParts(nodes[n])

\* C6 (as claimed): every raw key produces its own token, in insertion order
C6_EveryKeyOwnToken ==
    \A n \in Ids : HasAttrs(n) =>
        /\ Len(AttrParts(nodes[n])) = Len(Raw(n))
        /\ \A i \in 1..Len(Raw(n)) :
               IsPrefix(ConvertedName(Raw(n)[i][1]).s, AttrParts(nodes[n])[i])

\* the raw positions whose converted name occurs there for the first time
FirstPositions(items) ==
    SelectSeq([i \in 1..Len(items) |-> i],
              LAMBDA i : \A j \in 1..(i - 1) :
                            ConvertedName(items[j][1]) # ConvertedName(items[i][1]))

\* the last raw position stored under the same converted name as position i
LastPosition(items, i) ==
    CHOOSE k \in 1..Len(items) :
        /\ ConvertedName(items[k][1]) = ConvertedName(items[i][1])
        /\ \A m \in (k + 1)..Len(items) :
               ConvertedName(items[m][1]) # ConvertedName(items[i][1])

\* C6 (amended): there is one token per distinct converted name, in the order
\* in which the names are first inserted; the token of a name is the one its
\* last raw entry alone would produce
C6_TokensInFirstInsertionOrder ==
    \A n \in Ids : HasAttrs(n) =>
        LET first == FirstPositions(Raw(n))
            parts == AttrParts(nodes[n])
        IN  /\ Len(parts) = Len(first)
            /\ \A j \in 1..Len(first) :
                   /\ IsPrefix(ConvertedName(Raw(n)[first[j]][1]).s, parts[j])
                   /\ parts[j] = AttrParts([nodes[n] EXCEPT !.attr =
                           Dict(<<Raw(n)[LastPosition(Raw(n), first[j])]>>)])[1]

\* C6 witness: three raw entries, the third stored under the name of the first
C6_Witness ==
    \E n \in Ids :
        /\ HasAttrs(n)
        /\ Len(Raw(n)) = 3
        /\ ConvertedName(Raw(n)[3][1]) = ConvertedName(Raw(n)[1][1])
        /\ Raw(n)[3][2] # Raw(n)[1][2]
        /\ Len(AttrParts(nodes[n])) = 2

(***************************************************************************)
(* SpecRender: a tree grown under one root by add_child, with force_inline *)
(* calls on its elements; render is applied to every node of every tree.   *)
(***************************************************************************)
IdX == Dict(<< <<Str(s_id), Str(s_x)>> >>)

RenderArgs ==
    { [tag |-> None, content |-> Str(s_hi), attr |-> None],
      [tag |-> Str(s_p), content |-> Str(s_empty), attr |-> None],
      [tag |-> Str(s_span), content |-> Str(s_empty), attr |-> None] }

InitRender ==
    /\ nodes = <<HTMLNode_init(Str(s_div), Str(s_empty), None, 0).node>>
    /\ html = NoDocument
    /\ ret = NoCall
    /\ Idle

RenderAddChild ==
    \E self \in Ids, a \in RenderArgs :
        /\ Len(nodes) < MaxRenderNodes
        /\ ~nodes[self].is_text_node
        /\ add_child(self, a.tag, a.content, a.attr)

RenderForceInline ==
    \E self \in Ids, recursive \in BOOLEAN :
        /\ ~nodes[self].is_text_node
        /\ force_inline(self, recursive)

NextRender == RenderAddChild \/ RenderForceInline

SpecRender == InitRender /\ [][NextRender]_vars

Indents == 0..MaxIndent

\* the parent_inline with which node n is rendered when the root of its tree is
\* rendered with parent_inline = False: every render passes its current_inline
\* to its children
RECURSIVE PassedInline(_, _)
PassedInline(ns, n) ==
    IF ns[n].parent = 0 THEN FALSE
    ELSE CurrentInline(ns[ns[n].parent], PassedInline(ns, ns[n].parent))

\* the current_inline of node n in that render
EffectiveInline(ns, n) == CurrentInline(ns[n], PassedInline(ns, n))

\* the heap with the _force_inline flag of node n cleared
Unforced(n) == [nodes EXCEPT ![n].force_inline = FALSE]

Siblings(n) ==
    IF nodes[n].parent = 0 THEN {}
    ELSE {nodes[nodes[n].parent].children[i] :
              i \in 1..Len(nodes[nodes[n].parent].children)} \ {n}

\* C2: under an element N whose _force_inline flag is set every descendant is
\* rendered with parent_inline = True and effective inline = True, and the
\* render of N holds no newline and no indentation; a sibling of N under a
\* parent that is not effectively inline has the effective inline and the text
\* it would have with N's flag cleared
C2_InlineInheritedDownwardOnly ==
    \A n \in Ids :
        (nodes[n].force_inline /\ ~nodes[n].is_text_node) =>
            /\ \A d \in Descendants(n) :
                   PassedInline(nodes, d) /\ EffectiveInline(nodes, d)
            /\ ~Contains(render(nodes, n, 0, FALSE), NL)
            /\ ~Contains(render(nodes, n, 0, FALSE), TAB)
            /\ \A k \in Indents :
                   render(nodes, n, k, FALSE) = Rep(TAB, k) \o render(nodes, n, 0, FALSE)
            /\ \A s \in Siblings(n) :
                   ~EffectiveInline(nodes, nodes[n].parent) =>
                       /\ EffectiveInline(nodes, s) = EffectiveInline(Unforced(n), s)
                       /\ \A k \in Indents :
                              render(nodes, s, k, FALSE) = render(Unforced(n), s, k, FALSE)

\* C2 witness: a forced-inline element with a child, next to a sibling element
\* under a parent that is not effectively inline
C2_Witness ==
    \E n \in Ids :
        /\ nodes[n].force_inline /\ ~nodes[n].is_text_node /\ ~nodes[n].is_void
        /\ Len(nodes[n].children) > 0
        /\ \E s \in Siblings(n) :
               /\ ~EffectiveInline(nodes, nodes[n].parent)
               /\ ~nodes[s].is_text_node
               /\ ~nodes[s].force_inline

(***************************************************************************)
(* Spec: the document of HTML(), grown by add_child on any node, by nodes  *)
(* constructed directly and by attribute updates on elements.              *)
(***************************************************************************)
Hidden == Dict(<< <<Str(<<"h","i","d","d","e","n">>), PyTrue>> >>)

ChildArgs ==
    { [tag |-> None, content |-> Str(s_hi), attr |-> None],
      [tag |-> Str(s_p), content |-> Str(s_empty), attr |-> None],
      [tag |-> Str(s_br_), content |-> Str(s_hi), attr |-> IdX] }

CtorArgs ==
    { [tag |-> None, content |-> Str(s_hi), attr |-> IdX],
      [tag |-> Str(s_br), content |-> PyInt(7), attr |-> None] }

\* HTML.__init__
Init ==
    /\ nodes = <<HTMLNode_init(Str(s_head), Str(s_empty), None, 0).node,
                 HTMLNode_init(Str(s_body), Str(s_empty), None, 0).node>>
    /\ html = [head_root |-> 1, body_root |-> 2, current_node |-> 0]
    /\ ret = NoCall
    /\ Idle

AddChild ==
    \E self \in Ids, a \in ChildArgs :
        /\ Len(nodes) < MaxNodes
        /\ add_child(self, a.tag, a.content, a.attr)

NewNode ==
    \E a \in CtorArgs :
        /\ Len(nodes) < MaxNodes
        /\ Construct(a.tag, a.content, a.attr)

AttrUpdate ==
    \E n \in Ids : attr_update(n, Hidden.items[1][1], Hidden.items[1][2])

Next == AddChild \/ NewNode \/ AttrUpdate

Spec == Init /\ [][Next]_vars

\* the attribute part of an opening tag: empty, or a space and the tokens
AttrSuffix(n) ==
    IF Len(AttrParts(nodes[n])) = 0 THEN << >>
    ELSE <<" ">> \o Join(<<" ">>, AttrParts(nodes[n]))

\* the heap with node n emptied of its children and of its content
Emptied(n) == [nodes EXCEPT ![n].children = << >>, ![n].content = << >>]

\* C1: a node whose stored tag is a void element renders as its indent and
\* '<tag attrs />' only, whatever its content and children: no closing tag,
\* no content, no child output
C1_VoidRendersOpeningTagOnly ==
    \A n \in Ids :
        (nodes[n].tag.t = "str" /\ nodes[n].tag.s \in VOID_ELEMENTS) =>
            \A k \in Indents, pi \in BOOLEAN :
                /\ render(nodes, n, k, pi)
                       = Rep(TAB, k) \o <<"<">> \o nodes[n].tag.s \o AttrSuffix(n)
                             \o <<" ", "/", ">">>
                /\ render(nodes, n, k, pi) = render(Emptied(n), n, k, pi)

\* C1 witness: a void node with content, an attribute and a child
C1_Witness ==
    \E n \in Ids :
        /\ nodes[n].tag = Str(s_br)
        /\ Len(nodes[n].content) > 0
        /\ Len(nodes[n].attr.items) > 0
        /\ Len(nodes[n].children) > 0


\* the step is a successful add_child call
IsAddChildStep == ret' # ret /\ ret'.op = "add_child" /\ ret'.exc = "none"

\* the children of node n of heap ns are listed in the order of their creation
InInsertionOrder(ns, n) ==
    \A i, j \in 1..Len(ns[n].children) :
        i < j => ns[n].children[i] < ns[n].children[j]

\* C9: a successful add_child on P creates one fresh node C with C.parent = P
\* and no children, appends it as the last child of P, returns it and changes
\* nothing else; so the children of every node stay in insertion order
C9_AddChildAppendsOneFreshNode ==
    [][ /\ IsAddChildStep =>
             /\ Len(nodes') = Len(nodes) + 1
             /\ ret'.node = Len(nodes) + 1
             /\ nodes'[ret'.node].parent = ret'.self
             /\ nodes'[ret'.node].children = << >>
             /\ ~nodes'[ret'.node].force_inline
             /\ nodes'[ret'.self].children = nodes[ret'.self].children \o <<ret'.node>>
             /\ \A i \in 1..Len(nodes) :
                    nodes'[i] = IF i = ret'.self
                                THEN [nodes[i] EXCEPT !.children = @ \o <<ret'.node>>]
                                ELSE nodes[i]
             /\ html' = html
        /\ \A n \in 1..Len(nodes') : InInsertionOrder(nodes', n) ]_vars

\* C9 witness: add_child has just returned the second child of its receiver
C9_Witness ==
    /\ ret.op = "add_child" /\ ret.exc = "none"
    /\ Len(nodes[ret.self].children) = 2
    /\ nodes[ret.self].children[2] = ret.node

\* C10 (as claimed): every text node has no children and no attributes
C10_TextNodesAreBare ==
    \A n \in Ids :
        nodes[n].is_text_node =>
            Len(nodes[n].children) = 0 /\ Len(nodes[n].attr.items) = 0

(***************************************************************************)
(* SpecErr: add_child on the nodes of the document of HTML(), with         *)
(* arguments of the accepted and of the rejected types.                    *)
(***************************************************************************)
ErrTags == {None, Str(s_p)}

ErrContents == {Str(s_hi), PyInt(7), None, List(<< >>)}

ErrAttrs == {None, IdX, List(<<PyInt(1)>>), Str(s_x)}

NextErr ==
    \E self \in Ids, tag \in ErrTags, content \in ErrContents, attr \in ErrAttrs :
        /\ ~TypeCheckFails(tag, content, attr) => Len(nodes) < MaxErrNodes
        /\ add_child(self, tag, content, attr)

SpecErr == Init /\ [][NextErr]_vars

\* C8: an add_child call whose content is no str/int/float/bool, or whose attr
\* is neither None nor a dict, raises TypeError and leaves every node as it
\* was, whether or not a tag is given
C8_BadTypesRaiseAndChangeNothing ==
    [][ ( /\ ret'.op = "add_child"
          /\ \/ ret'.content.t \notin {"str", "int", "float", "bool"}
             \/ (ret'.attr # None /\ ret'.attr.t # "dict") )
        => (ret'.exc = "TypeError" /\ ret'.node = 0 /\ nodes' = nodes /\ html' = html)
      ]_vars

\* C8 witness: a text-node request with well-typed content and a list as attr
\* was rejected on a receiver that has a child
C8_Witness ==
    /\ ret.op = "add_child" /\ ret.exc = "TypeError"
    /\ ret.tag = None
    /\ ret.content.t = "str"
    /\ ret.attr.t = "list"
    /\ Len(nodes[ret.self].children) > 0

(***************************************************************************)
(* SpecCtor: HTMLNode(tag, content, attr) called directly with arguments   *)
(* of every type.                                                          *)
(***************************************************************************)
CtorTags == {None, Str(s_p)}

CtorContents == {Str(s_hi), None, List(<<PyInt(1)>>)}

CtorAttrs ==
    { None, Dict(<< >>), IdX, Dict(<< <<PyInt(1), Str(s_x)>> >>),
      List(<<PyInt(1)>>), List(<< >>), Str(s_x), Str(s_empty),
      PyInt(5), PyInt(0), PyTrue }

InitCtor ==
    /\ nodes = << >>
    /\ html = NoDocument
    /\ ret = NoCall
    /\ Idle

NextCtor ==
    \E tag \in CtorTags, content \in CtorContents, attr \in CtorAttrs :
        /\ HTMLNode_init(tag, content, attr, 0).exc = "none" => Len(nodes) < MaxCtorNodes
        /\ Construct(tag, content, attr)

SpecCtor == InitCtor /\ [][NextCtor]_vars

\* ep.attr(hidden=True) / proxy.attr(hidden=True) on a node constructed with
\* any of CtorAttrs: the attr stored is a dict, or a non-empty list, on which
\* update raises AttributeError
CtorAttrUpdate ==
    \E n \in Ids : attr_update(n, Hidden.items[1][1], Hidden.items[1][2])

NextCtorAttr == NextCtor \/ CtorAttrUpdate

SpecCtorAttr == InitCtor /\ [][NextCtorAttr]_vars

\* a dict whose keys are all strings
IsStrKeyedDict(v) ==
    v.t = "dict" /\ \A i \in 1..Len(v.items) : v.items[i][1].t = "str"

\* C7 (as claimed, attributes half): constructing a node fails whenever
\* attributes is provided and is not a string-keyed mapping
C7_ConstructRejectsBadAttributes ==
    (ret.op = "HTMLNode" /\ ret.attr # None /\ ~IsStrKeyedDict(ret.attr))
        => (ret.exc # "none" /\ ret.node = 0)

\* C7 (amended): the constructor checks no type.  It never raises TypeError;
\* it raises AttributeError exactly when attributes is a truthy str, number or
\* bool (a value without copy()), and then returns no node; for every other
\* attributes and every content it returns a node holding str(content) and
\* the given dict or list (an empty dict when attributes is falsy)
C7_ConstructValidatesNothing ==
    ret.op = "HTMLNode" =>
        /\ ret.exc \in {"none", "AttributeError"}
        /\ ret.exc = "AttributeError"
              <=> (ret.attr.t \in {"str", "int", "bool"} /\ Truthy(ret.attr))
        /\ ret.exc # "none" => ret.node = 0
        /\ ret.exc = "none" =>
              /\ ret.node \in Ids
              /\ nodes[ret.node].content = PyStr(ret.content)
              /\ nodes[ret.node].attr =
                     IF ret.attr.t \in {"dict", "list"} /\ Len(ret.attr.items) > 0
                     THEN ret.attr ELSE Dict(<< >>)

\* C7 witness: a node was constructed from content None and a list as attributes
C7_Witness ==
    /\ ret.op = "HTMLNode" /\ ret.exc = "none"
    /\ ret.content = None
    /\ ret.attr.t = "list" /\ Len(ret.attr.items) > 0
    /\ nodes[ret.node].content = s_None

(***************************************************************************)
(* SpecBuilder: a Container, its proxies, the ElementProperty objects that *)
(* create its elements and the with-blocks opened on them, the context     *)
(* stack driven from outside a block, removals and clear, next to a second *)
(* Component that is merged into the container by add_component.           *)
(***************************************************************************)
MaxBuilderNodes == 6   \* HTMLNode objects on the heap in SpecBuilder (four roots included)
MaxMerges == 1         \* add_component calls in SpecBuilder
MaxListLen == 4        \* items a list holds when an append to it raises MemoryError
MaxContexts == 1       \* nodes on the context stack, and with-blocks open, when one more is entered

BuilderTags == {Str(s_div), Str(s_p)}

\* kwargs of a call without keyword arguments
NoKwargs == Dict(<< >>)

\* Container._context_stack[-1] if Container._context_stack else None
current_context == 
    IF Len(container.context_stack) > 0
    THEN container.context_stack[Len(container.context_stack)] ELSE 0

\* ElementProperty.__init__: self.parent_node, from the current_node of the proxy
\* that creates the property (HTMLProxy.__getattr__ passes self.current_node)
ElementProperty_parent_node(proxy_node) ==
    IF proxy_node # 0 THEN proxy_node ELSE current_context

\* ElementProperty._get_parent for target "body"
get_parent(parent_node) ==
    IF parent_node # 0 THEN parent_node
    ELSE IF Len(container.context_stack) > 0 THEN current_context
    ELSE html.body_root

\* Container.__init__: self.body = HTMLProxy(self, "body", self.com.html.body_root)
body_proxy_node == html.body_root

\* the current nodes of the proxies in use: com.body, and the proxy that each
\* open with-block returned
ProxyNodes ==
    {body_proxy_node} \cup {container.withs[i].node : i \in 1..Len(container.withs)}

\* the process runs: it was not killed for the memory it took
Alive == ~container.killed

\* self.children.append(child) in add_child raises MemoryError: the children
\* list of the parent took all the memory
append_raises(proxy_node) ==
    get_parent(ElementProperty_parent_node(proxy_node)) \in container.full

\* proxy.<tag>(content): HTMLProxy.__getattr__ builds an ElementProperty, whose
\* __call__ adds the element under _get_parent(); `proxy_node` is the
\* current_node of the proxy.  When the append raises, the node exists, with
\* its parent, and is in no list
ElementProperty_call(proxy_node, tag, content) ==
    LET parent == get_parent(ElementProperty_parent_node(proxy_node))
    IN  /\ ~TypeCheckFails(tag, content, NoKwargs)
        /\ IF append_raises(proxy_node)
           THEN /\ nodes' = Append(nodes, ChildInit(parent, tag, content, NoKwargs).node)
                /\ ret' = [op |-> "element", proxy |-> proxy_node, tag |-> tag,
                           exc |-> "MemoryError", node |-> 0]
           ELSE /\ nodes' = add_child_nodes(parent, tag, content, NoKwargs)
                /\ ret' = [op |-> "element", proxy |-> proxy_node, tag |-> tag,
                           exc |-> "none", node |-> Len(nodes) + 1]

\* the nodes held by ElementProperty objects (self.node) after such a call
props_after(proxy_node) ==
    IF append_raises(proxy_node) THEN container.props
    ELSE container.props \cup {Len(nodes) + 1}

\* com.body.<tag>(content)
BodyElement ==
    \E tag \in BuilderTags :
        /\ Alive
        /\ Len(nodes) < MaxBuilderNodes
        /\ ElementProperty_call(body_proxy_node, tag, Str(s_empty))
        /\ container' = [container EXCEPT !.props = props_after(body_proxy_node)]
        /\ UNCHANGED <<html, ghost, scan>>

\* with com.body.<tag> as d: the property has no node, so __enter__ creates the
\* element, then pushes it on the context stack, makes it the document's
\* current node and returns a proxy on it.  `withs` keeps, for each block
\* entered and not yet left, the node of its proxy and the stack and current
\* node found on entry.
EnterWith ==
    \E tag \in BuilderTags :
        /\ Alive
        /\ Len(nodes) < MaxBuilderNodes
        /\ ElementProperty_call(body_proxy_node, tag, Str(s_empty))
        /\ IF append_raises(body_proxy_node)
           THEN UNCHANGED <<container, html>>
           ELSE /\ container' =
                      [container EXCEPT
                          !.props = @ \cup {Len(nodes) + 1},
                          !.context_stack = Append(@, Len(nodes) + 1),
                          !.withs = Append(@, [node |-> Len(nodes) + 1,
                                               stack |-> container.context_stack,
                                               current |-> html.current_node])]
                /\ html' = [html EXCEPT !.current_node = Len(nodes) + 1]
        /\ UNCHANGED <<ghost, scan>>

\* with ep as d, ep being a property that holds its node n: __enter__ creates
\* nothing, pushes n, makes it the document's current node and returns a proxy
\* on it
ElementProperty_enter(n) ==
    /\ container' =
          [container EXCEPT
              !.context_stack = Append(@, n),
              !.withs = Append(@, [node |-> n, stack |-> container.context_stack,
                                   current |-> html.current_node])]
    /\ html' = [html EXCEPT !.current_node = n]
    /\ UNCHANGED <<nodes, ret, ghost, scan>>

EnterProperty ==
    \E n \in container.props :
        /\ Alive
        /\ Len(container.context_stack) < MaxContexts
        /\ Len(container.withs) < MaxContexts
        /\ ElementProperty_enter(n)

\* d.<tag>(content), d being the proxy returned by the innermost open with-block
ProxyElement ==
    \E tag \in BuilderTags :
        /\ Alive
        /\ Len(nodes) < MaxBuilderNodes
        /\ Len(container.withs) > 0
        /\ ElementProperty_call(container.withs[Len(container.withs)].node, tag, Str(s_empty))
        /\ container' = [container EXCEPT
                            !.props = props_after(container.withs[Len(container.withs)].node)]
        /\ UNCHANGED <<html, ghost, scan>>

\* ElementProperty.__exit__ of the innermost open with-block, reached at the
\* end of the block (exc = FALSE) or by an exception raised in it (exc = TRUE);
\* it returns None, so the exception goes on to the caller
ExitWith ==
    \E exc \in BOOLEAN :
        /\ Alive
        /\ Len(container.withs) > 0
        /\ container' =
              [container EXCEPT
                  !.context_stack =
                      IF Len(@) > 0 THEN SubSeq(@, 1, Len(@) - 1) ELSE @,
                  !.withs = SubSeq(@, 1, Len(@) - 1)]
        /\ ret' = [op |-> "exit", exc |-> exc]
        /\ UNCHANGED <<nodes, html, ghost, scan>>

\* Container.push_context(node); HTMLProxy.__enter__ on a proxy whose current
\* node is `node` does the same: self._context_stack.append(node)
push_context(node) ==
    /\ container' = [container EXCEPT !.context_stack = Append(@, node)]
    /\ UNCHANGED <<nodes, html, ret, ghost, scan>>

\* com.push_context(ep.node)
PushContext ==
    \E n \in container.props :
        /\ Alive
        /\ Len(container.context_stack) < MaxContexts
        /\ push_context(n)

\* with com.body as b / with d as b: HTMLProxy.__enter__
ProxyEnter ==
    \E n \in ProxyNodes :
        /\ Alive
        /\ Len(container.context_stack) < MaxContexts
        /\ push_context(n)

\* Container.pop_context(), HTMLProxy.__exit__ and ChainBuilder.__exit__:
\* if self._context_stack: self._context_stack.pop()
pop_context ==
    /\ Alive
    /\ container' = [container EXCEPT
                        !.context_stack = IF Len(@) > 0 THEN SubSeq(@, 1, Len(@) - 1) ELSE @]
    /\ UNCHANGED <<nodes, html, ret, ghost, scan>>

\* with ChainBuilder(proxy, tag) as b: __enter__ adds the element under the
\* current node of the proxy and pushes it; the document's current node stays
ChainBuilder_enter(proxy_node, tag) ==
    /\ ~TypeCheckFails(tag, Str(s_empty), None)
    /\ proxy_node \notin container.full
    /\ nodes' = add_child_nodes(proxy_node, tag, Str(s_empty), None)
    /\ container' = [container EXCEPT !.context_stack = Append(@, Len(nodes) + 1)]
    /\ ret' = [op |-> "chain_enter", proxy |-> proxy_node, tag |-> tag,
               exc |-> "none", node |-> Len(nodes) + 1]
    /\ UNCHANGED <<html, ghost, scan>>

ChainEnter ==
    \E n \in ProxyNodes, tag \in BuilderTags :
        /\ Alive
        /\ Len(nodes) < MaxBuilderNodes
        /\ Len(container.context_stack) < MaxContexts
        /\ ChainBuilder_enter(n, tag)

\* ep.ln(), ep being a property that holds its node
PropertyLn == \E n \in container.props : Alive /\ ln(n)

\* ChainBuilder(proxy, tag).ln(): the current node of the proxy is made inline
ChainLn == \E n \in ProxyNodes : Alive /\ ln(n)

\* the children of parent that remove keeps: those whose tag is not `tag`; all
\* of them go when tag is None (no keyword argument is given, so every child
\* matches on its attributes)
kept_children(parent, tag) ==
    SelectSeq(nodes[parent].children, LAMBDA c : tag # None /\ nodes[c].tag # tag)

\* ElementProperty.remove() of a property of tag `tag` made by a proxy whose
\* current node is proxy_node: the children of _get_parent() with that tag
\* are taken out of its list
ElementProperty_remove(proxy_node, tag) ==
    /\ nodes' = [nodes EXCEPT
                    ![get_parent(ElementProperty_parent_node(proxy_node))].children =
                        kept_children(get_parent(ElementProperty_parent_node(proxy_node)),
                                      tag)]
    /\ UNCHANGED <<html, ret, others>>

\* com.body.<tag>.remove(), d.<tag>.remove()
PropertyRemove ==
    \E n \in ProxyNodes, tag \in BuilderTags : Alive /\ ElementProperty_remove(n, tag)

\* HTMLProxy.remove(tag) on a proxy whose current node is proxy_node
HTMLProxy_remove(proxy_node, tag) ==
    /\ nodes' = [nodes EXCEPT ![proxy_node].children = kept_children(proxy_node, tag)]
    /\ UNCHANGED <<html, ret, others>>

\* com.body.remove(tag), d.remove(tag), com.body.remove()
ProxyRemove ==
    \E n \in ProxyNodes, tag \in BuilderTags \cup {None} :
        Alive /\ HTMLProxy_remove(n, tag)

\* Container.clear(): a new Component, with a new document of two new roots,
\* an empty context stack and new proxies; the with-blocks that are open
\* stay open
Container_clear ==
    /\ Alive
    /\ Len(nodes) + 2 <= MaxBuilderNodes
    /\ nodes' = nodes \o <<HTMLNode_init(Str(s_head), Str(s_empty), None, 0).node,
                           HTMLNode_init(Str(s_body), Str(s_empty), None, 0).node>>
    /\ html' = [head_root |-> Len(nodes) + 1, body_root |-> Len(nodes) + 2,
                current_node |-> 0]
    /\ container' = [container EXCEPT !.context_stack = << >>]
    /\ ret' = [op |-> "clear"]
    /\ UNCHANGED <<ghost, scan>>

\* component.html.add_body_element(tag) on the second Component, which has no
\* nested element open
OtherBodyElement ==
    \E tag \in BuilderTags :
        /\ Alive
        /\ Len(nodes) < MaxBuilderNodes
        /\ ~TypeCheckFails(tag, Str(s_empty), None)
        /\ nodes' = add_child_nodes(container.other.body_root, tag, Str(s_empty), None)
        /\ ret' = [op |-> "add_body_element", tag |-> tag, exc |-> "none",
                   node |-> Len(nodes) + 1]
        /\ UNCHANGED <<html, others>>

\* the children of node `to` followed by the children of node `from`
Extended(to, from) == nodes[to].children \o nodes[from].children

\* the lengths a list of n items can have when an append to it raises
\* MemoryError in a loop that feeds it from itself: more than n, and as many
\* as the memory of the run holds (here, MaxListLen at most)
grown_lengths(n) == (n + 1)..(IF MaxListLen > n THEN MaxListLen ELSE n + 1)

\* the loop `for child in <from>.children: <to>.children.append(child)`, `len`
\* being the length at which the memory ends.  With nothing to append it ends
\* at once.  When both are the same list, every turn appends the item the
\* iterator reaches and the iterator never reaches the end: the list grows,
\* repeating itself, until an append raises MemoryError; a list that took all
\* the memory raises at the first append
merge_children(to, from, len) ==
    IF Len(nodes[from].children) = 0
    THEN [exc |-> "none", children |-> nodes[to].children]
    ELSE IF to \in container.full
    THEN [exc |-> "MemoryError", children |-> nodes[to].children]
    ELSE IF to = from
    THEN [exc |-> "MemoryError",
          children |-> [i \in 1..len |->
                           nodes[to].children[((i - 1) % Len(nodes[to].children)) + 1]]]
    ELSE [exc |-> "none", children |-> Extended(to, from)]

\* Container.add_component(component), component given by the roots of its
\* document: the head loop, then the body loop, which is not reached when
\* the head loop raises (`merges` counts the calls).  The call is recorded
\* with the children the four roots had when it was made.  A loop that runs
\* out of memory ends with MemoryError at a length that depends on the memory
\* of the run, or with the process killed by the system before any exception
\* (`killed`)
add_component(component) ==
    /\ Alive
    /\ container.merges < MaxMerges
    /\ \E len_head \in grown_lengths(Len(nodes[html.head_root].children)),
          len_body \in grown_lengths(Len(nodes[html.body_root].children)),
          killed \in BOOLEAN :
         LET head == merge_children(html.head_root, component.head_root, len_head)
             body == merge_children(html.body_root, component.body_root, len_body)
             exc == IF head.exc # "none" THEN head.exc ELSE body.exc
             grown == IF head.exc # "none" THEN {html.head_root}
                      ELSE IF body.exc # "none" THEN {html.body_root} ELSE {}
         IN  /\ killed => exc # "none"
             /\ nodes' = [nodes EXCEPT
                            ![html.head_root].children = head.children,
                            ![html.body_root].children =
                                IF head.exc = "none" THEN body.children ELSE @]
             /\ ret' = [op |-> "add_component", component |-> component,
                        exc |-> IF killed THEN "killed" ELSE exc,
                        head_before |-> nodes[html.head_root].children,
                        body_before |-> nodes[html.body_root].children,
                        arg_head |-> nodes[component.head_root].children,
                        arg_body |-> nodes[component.body_root].children]
             /\ container' = [container EXCEPT !.merges = @ + 1,
                                               !.full = @ \cup grown,
                                               !.killed = killed]
    /\ UNCHANGED <<html, ghost, scan>>

\* com.add_component(component) with the second Component
MergeOther == add_component(container.other)

\* Container() and a second Component(): each builds an HTML() with two roots.
\* props: the nodes held by ElementProperty objects; full: the nodes whose
\* children list took all the memory; killed: the process was killed
InitBuilder ==
    /\ nodes = <<HTMLNode_init(Str(s_head), Str(s_empty), None, 0).node,
                 HTMLNode_init(Str(s_body), Str(s_empty), None, 0).node,
                 HTMLNode_init(Str(s_head), Str(s_empty), None, 0).node,
                 HTMLNode_init(Str(s_body), Str(s_empty), None, 0).node>>
    /\ html = [head_root |-> 1, body_root |-> 2, current_node |-> 0]
    /\ container = [context_stack |-> << >>, withs |-> << >>,
                    other |-> [head_root |-> 3, body_root |-> 4], merges |-> 0,
                    props |-> {}, full |-> {}, killed |-> FALSE]
    /\ ret = NoCall
    /\ ghost = NoGhost
    /\ scan = NoScan

NextBuilder ==
    \/ BodyElement
    \/ EnterWith
    \/ EnterProperty
    \/ ProxyElement
    \/ ExitWith
    \/ PushContext
    \/ ProxyEnter
    \/ pop_context
    \/ ChainEnter
    \/ PropertyLn
    \/ ChainLn
    \/ PropertyRemove
    \/ ProxyRemove
    \/ Container_clear
    \/ OtherBodyElement
    \/ MergeOther

SpecBuilder == InitBuilder /\ [][NextBuilder]_vars

\* the places <<p, i>> where node c is listed as the i-th child of node p
Places(c) ==
    {pi \in Ids \X (1..Len(nodes)) :
        pi[2] <= Len(nodes[pi[1]].children) /\ nodes[pi[1]].children[pi[2]] = c}

\* C11 (as claimed): the nodes form a forest with exclusive ownership: every
\* node is listed as a child at most once, by at most one node, and every
\* listed child has the listing node as its parent
C11_ForestExclusiveOwnership ==
    \A c \in Ids :
        /\ Cardinality(Places(c)) <= 1
        /\ \A pi \in Places(c) : nodes[c].parent = pi[1]

\* C13 (as claimed): when a with-block on a created element is left, by its
\* end or by an exception, the context stack and the document's current node
\* are again what they were when the block was entered
C13_ExitRestoresStackAndCurrentNode ==
    [][ Len(container'.withs) < Len(container.withs) =>
            /\ container'.context_stack = container.withs[Len(container.withs)].stack
            /\ html'.current_node = container.withs[Len(container.withs)].current
      ]_vars

\* C14 (as claimed): while a with-block on element E is open, E on top of the
\* context stack, an element created through com.body becomes the last child
\* of E and the children of the body root stay as they are
C14_BodyProxyAttachesToInnermostScope ==
    [][ ( /\ ret'.op = "element" /\ Len(nodes') = Len(nodes) + 1
          /\ ret'.proxy = html.body_root
          /\ Len(container.context_stack) > 0 )
        => /\ nodes'[current_context].children
                  = Append(nodes[current_context].children, Len(nodes) + 1)
           /\ nodes'[html.body_root].children = nodes[html.body_root].children
      ]_vars

(***************************************************************************)
(* SpecDoc: one HTML document driven through add_body_element,             *)
(* start_nested_element, end_nested_element and clear.  ghost.open counts  *)
(* the nested scopes started (since construction or the last clear) and    *)
(* not yet closed by an end_nested_element call that returned.             *)
(***************************************************************************)
MaxDocNodes == 5   \* HTMLNode objects on the heap in SpecDoc (the roots included)

DocTags == {Str(s_div), Str(s_p)}

\* parent = self.current_node or self.body_root
current_or_body == IF html.current_node # 0 THEN html.current_node ELSE html.body_root

\* HTML.add_body_element(tag)
add_body_element(tag) ==
    /\ ~TypeCheckFails(tag, Str(s_empty), None)
    /\ nodes' = add_child_nodes(current_or_body, tag, Str(s_empty), None)
    /\ ret' = [op |-> "add_body_element", tag |-> tag, exc |-> "none",
               node |-> Len(nodes) + 1]
    /\ UNCHANGED <<html, others>>

\* HTML.start_nested_element(tag)
start_nested_element(tag) ==
    /\ ~TypeCheckFails(tag, Str(s_empty), None)
    /\ nodes' = add_child_nodes(current_or_body, tag, Str(s_empty), None)
    /\ html' = [html EXCEPT !.current_node = Len(nodes) + 1]
    /\ ret' = [op |-> "start_nested_element", tag |-> tag, exc |-> "none",
               node |-> Len(nodes) + 1]
    /\ ghost' = [ghost EXCEPT !.open = @ + 1]
    /\ UNCHANGED <<container, scan>>

\* HTML.end_nested_element()
end_nested_element ==
    IF html.current_node = 0
    THEN /\ ret' = [op |-> "end_nested_element", exc |-> "RuntimeError", open |-> ghost.open]
         /\ UNCHANGED <<nodes, html, others>>
    ELSE /\ html' = [html EXCEPT !.current_node = nodes[html.current_node].parent]
         /\ ret' = [op |-> "end_nested_element", exc |-> "none", open |-> ghost.open]
         /\ ghost' = [ghost EXCEPT !.open = IF @ > 0 THEN @ - 1 ELSE 0]
         /\ UNCHANGED <<nodes, container, scan>>

\* HTML.clear()
clear ==
    /\ nodes' = nodes \o <<HTMLNode_init(Str(s_head), Str(s_empty), None, 0).node,
                           HTMLNode_init(Str(s_body), Str(s_empty), None, 0).node>>
    /\ html' = [head_root |-> Len(nodes) + 1, body_root |-> Len(nodes) + 2,
                current_node |-> 0]
    /\ ret' = [op |-> "clear"]
    /\ ghost' = [ghost EXCEPT !.open = 0]
    /\ UNCHANGED <<container, scan>>

DocAddBodyElement ==
    \E tag \in DocTags : Len(nodes) < MaxDocNodes /\ add_body_element(tag)

DocStartNestedElement ==
    \E tag \in DocTags : Len(nodes) < MaxDocNodes /\ start_nested_element(tag)

DocClear == Len(nodes) + 2 <= MaxDocNodes /\ clear

NextDoc ==
    \/ DocAddBodyElement
    \/ DocStartNestedElement
    \/ end_nested_element
    \/ DocClear

SpecDoc == Init /\ [][NextDoc]_vars

\* C12 (as claimed): end_nested_element called while no nested scope is open
\* raises, and leaves the current node and both trees as they were
C12_EndWithoutOpenScopeRaises ==
    [][ (ret'.op = "end_nested_element" /\ ret' # ret /\ ghost.open = 0)
        => (ret'.exc = "RuntimeError" /\ html' = html /\ nodes' = nodes) ]_vars

(***************************************************************************)
(* SpecForce: a tree grown under one root by add_child, with force_inline  *)
(* calls on any of its nodes; each call is recorded with its arguments.    *)
(***************************************************************************)
MaxForceNodes == 4   \* HTMLNode objects of the tree in SpecForce

ForceArgs ==
    { [tag |-> None, content |-> Str(s_hi), attr |-> None],
      [tag |-> Str(s_p), content |-> Str(s_empty), attr |-> None] }

ForceAddChild ==
    \E self \in Ids, a \in ForceArgs :
        /\ Len(nodes) < MaxForceNodes
        /\ add_child(self, a.tag, a.content, a.attr)

\* node.force_inline(recursive), the call being recorded
ForceInlineCall ==
    \E self \in Ids, recursive \in BOOLEAN :
        /\ nodes' = force_inline_nodes(self, recursive)
        /\ ret' = [op |-> "force_inline", self |-> self, recursive |-> recursive]
        /\ UNCHANGED <<html, others>>

NextForce == ForceAddChild \/ ForceInlineCall

SpecForce == InitRender /\ [][NextForce]_vars

\* the heap ns with every _force_inline flag cleared
Flagless(ns) == [i \in 1..Len(ns) |-> [ns[i] EXCEPT !.force_inline = FALSE]]

\* C15: force_inline(recursive) sets the flag of the receiver; with recursive
\* it sets the flag of every node that is a descendant at the call, without it
\* it changes the flag of no descendant; it touches no other node and no other
\* field.  The cascade is not live: a child added afterwards by add_child has
\* its flag clear, and add_child changes no flag.
C15_ForceInlineCascadesOnce ==
    [][ /\ ret'.op = "force_inline" =>
             /\ Len(nodes') = Len(nodes)
             /\ Flagless(nodes') = Flagless(nodes)
             /\ nodes'[ret'.self].force_inline
             /\ \A d \in Descendants(ret'.self) :
                    nodes'[d].force_inline
                        = IF ret'.recursive THEN TRUE ELSE nodes[d].force_inline
             /\ \A i \in Ids \ ({ret'.self} \cup Descendants(ret'.self)) :
                    nodes'[i].force_inline = nodes[i].force_inline
        /\ (ret'.op = "add_child" /\ ret'.exc = "none") =>
             /\ ~nodes'[ret'.node].force_inline
             /\ \A i \in Ids : nodes'[i].force_inline = nodes[i].force_inline
      ]_vars

\* C15 witness: a child has just been added, flag clear, under a node whose
\* recursive force_inline had reached an earlier child and a grandchild
C15_Witness ==
    /\ ret.op = "add_child" /\ ret.exc = "none"
    /\ nodes[ret.self].force_inline
    /\ ~nodes[ret.node].force_inline
    /\ \E c \in Ids, g \in Ids :
          /\ nodes[c].parent = ret.self /\ nodes[c].force_inline
          /\ nodes[g].parent = c /\ nodes[g].force_inline

(***************************************************************************)
(* HTMLNode.validate, and SpecValidate: a tree of lists, tables and other  *)
(* elements grown under one root by add_child; validate is applied to      *)
(* every node of every tree.                                               *)
(***************************************************************************)
MaxValidateNodes == 4   \* HTMLNode objects of the tree in SpecValidate

s_ul == <<"u","l">>
s_ol == <<"o","l">>
s_li == <<"l","i">>
s_table == <<"t","a","b","l","e">>
s_thead == <<"t","h","e","a","d">>
s_tbody == <<"t","b","o","d","y">>

\* the ids of self.children
ChildSet(ns, n) == {ns[n].children[i] : i \in 1..Len(ns[n].children)}

\* validate with `has_header and has_body` for a table
RECURSIVE validate_both(_, _)
validate_both(ns, n) ==
    IF ns[n].tag \in {Str(s_ul), Str(s_ol)}
    THEN \A c \in ChildSet(ns, n) : ns[c].tag = Str(s_li)
    ELSE IF ns[n].tag = Str(s_table)
    THEN /\ \E c \in ChildSet(ns, n) : ns[c].tag = Str(s_thead)
         /\ \E c \in ChildSet(ns, n) : ns[c].tag = Str(s_tbody)
    ELSE \A c \in ChildSet(ns, n) : validate_both(ns, c)

\* HTMLNode.validate(self), self being node n of heap ns
RECURSIVE validate(_, _)
validate(ns, n) ==
    IF ns[n].tag \in {Str(s_ul), Str(s_ol)}
    THEN \A c \in ChildSet(ns, n) : ns[c].tag = Str(s_li)
    ELSE IF ns[n].tag = Str(s_table)
    THEN LET has_header == \E c \in ChildSet(ns, n) : ns[c].tag = Str(s_thead)
             has_body == \E c \in ChildSet(ns, n) : ns[c].tag = Str(s_tbody)
         IN  has_header \/ has_body
    ELSE \A c \in ChildSet(ns, n) : validate(ns, c)

ValidateArgs ==
    { [tag |-> None, content |-> Str(s_hi)],
      [tag |-> Str(s_p), content |-> Str(s_empty)],
      [tag |-> Str(s_ul), content |-> Str(s_empty)],
      [tag |-> Str(s_ol), content |-> Str(s_empty)],
      [tag |-> Str(s_li), content |-> Str(s_empty)],
      [tag |-> Str(s_table), content |-> Str(s_empty)],
      [tag |-> Str(s_thead), content |-> Str(s_empty)],
      [tag |-> Str(s_tbody), content |-> Str(s_empty)] }

ValidateAddChild ==
    \E self \in Ids, a \in ValidateArgs :
        /\ Len(nodes) < MaxValidateNodes
        /\ add_child(self, a.tag, a.content, None)

SpecValidate == InitRender /\ [][ValidateAddChild]_vars

\* the heap with the children of the children of node n removed
WithoutGrandchildren(n) ==
    [i \in 1..Len(nodes) |->
        IF i \in ChildSet(nodes, n) THEN [nodes[i] EXCEPT !.children = << >>]
        ELSE nodes[i]]

\* C16: validate is true for a ul or ol exactly when every direct child is an
\* li (so for an empty list, and whatever the grandchildren are), for a table
\* exactly when some direct child is a thead or a tbody, and for any other
\* node exactly when it is true for every child
C16_ValidateComputesShallowRules ==
    \A n \in Ids :
        /\ nodes[n].tag \in {Str(s_ul), Str(s_ol)} =>
             /\ validate(nodes, n)
                  <=> (\A i \in 1..Len(nodes[n].children) :
                           nodes[nodes[n].children[i]].tag = Str(s_li))
             /\ Len(nodes[n].children) = 0 => validate(nodes, n)
             /\ validate(nodes, n) = validate(WithoutGrandchildren(n), n)
        /\ nodes[n].tag = Str(s_table) =>
             ( validate(nodes, n)
                  <=> (\E i \in 1..Len(nodes[n].children) :
                           nodes[nodes[n].children[i]].tag \in {Str(s_thead), Str(s_tbody)}) )
        /\ nodes[n].tag \notin {Str(s_ul), Str(s_ol), Str(s_table)} =>
             ( validate(nodes, n)
                  <=> (\A i \in 1..Len(nodes[n].children) :
                           validate(nodes, nodes[n].children[i])) )

\* C16 witness: add_child has just built an invalid structure, an ol in which
\* a text node follows an li, so that validate rejects the list and the root
C16_Witness ==
    /\ ret.op = "add_child" /\ ret.exc = "none"
    /\ nodes[ret.self].tag = Str(s_ol)
    /\ Len(nodes[ret.self].children) = 2
    /\ nodes[nodes[ret.self].children[1]].tag = Str(s_li)
    /\ nodes[ret.node].tag = None
    /\ ~validate(nodes, ret.self)
    /\ ~validate(nodes, 1)

(***************************************************************************)
(* SpecTag: HTMLNode(tag) called directly with tags written with and       *)
(* without trailing underscores.                                           *)
(***************************************************************************)
MaxTagNodes == 3   \* HTMLNode objects constructed in SpecTag

s_input_ == <<"i","n","p","u","t","_">>
s_input__ == <<"i","n","p","u","t","_","_">>
s_del_ == <<"d","e","l","_">>

TagInputs ==
    { None, Str(s_empty), Str(<<"_">>), Str(s_p), Str(s_input), Str(s_input_),
      Str(s_input__), Str(s_br_), Str(s_del_), Str(s_data_x) }

NextTag ==
    \E tag \in TagInputs :
        /\ Len(nodes) < MaxTagNodes
        /\ Construct(tag, Str(s_empty), None)

SpecTag == InitCtor /\ [][NextTag]_vars

\* the written tag without its last character
Chopped(tag) == Str(SubSeq(tag.s, 1, Len(tag.s) - 1))

\* C17: the stored tag is the written tag with one trailing underscore removed
\* when there is one, and the written tag otherwise; is_text_node is true
\* exactly when the tag is absent; is_void is true exactly when the stored tag
\* is a void element, so 'input_' gives a void node tagged 'input'
C17_TagStrippedOnceThenClassified ==
    (ret.op = "HTMLNode" /\ ret.exc = "none") =>
        /\ nodes[ret.node].tag =
              IF ret.tag # None /\ Len(ret.tag.s) > 0 /\ ret.tag.s[Len(ret.tag.s)] = "_"
              THEN Chopped(ret.tag) ELSE ret.tag
        /\ nodes[ret.node].is_text_node <=> (ret.tag = None)
        /\ nodes[ret.node].is_void
              <=> (nodes[ret.node].tag # None /\ nodes[ret.node].tag.s \in VOID_ELEMENTS)
        /\ ret.tag = Str(s_input_) =>
              (nodes[ret.node].tag = Str(s_input) /\ nodes[ret.node].is_void)

\* C17 witness: the tag written 'input_' has given a void node tagged 'input',
\* after the tag written 'input__' gave a node tagged 'input_' that is not void
C17_Witness ==
    /\ ret.op = "HTMLNode" /\ ret.exc = "none" /\ ret.node = 2
    /\ ret.tag = Str(s_input_)
    /\ nodes[2].tag = Str(s_input) /\ nodes[2].is_void /\ ~nodes[2].is_text_node
    /\ nodes[1].tag = Str(s_input_) /\ ~nodes[1].is_void

(***************************************************************************)
(* derender: the tokenizer of _parse_section and _convert_attrs.           *)
(* pattern = '<(/?)(\w+)(.*?)(/?)>|([^<]+)' with re.DOTALL; positions are  *)
(* 1-based indexes into the text.                                          *)
(***************************************************************************)
\* \w on the characters the model uses
WordChars ==
    { "a","b","c","d","e","f","g","h","i","j","k","l","m","n","o","p","q","r",
      "s","t","u","v","w","x","y","z","H","_","0","1" }

\* the characters str.strip() removes
Whitespace == {" ", "\n", "\t", "\r"}

\* the end (exclusive) of the longest run of characters of `set` that starts at q
RECURSIVE RunEnd(_, _, _)
RunEnd(s, q, set) ==
    IF q <= Len(s) /\ s[q] \in set THEN RunEnd(s, q + 1, set) ELSE q

\* the first position >= from that holds a character of `set`, Len(s) + 1 if none
RECURSIVE Find(_, _, _)
Find(s, from, set) ==
    IF from > Len(s) \/ s[from] \in set THEN from ELSE Find(s, from + 1, set)

NoMatch == [ok |-> FALSE]

\* the first alternative of the pattern tried at position p: '<', an optional
\* '/', the longest word, then the shortest text that a '>' or a '/>' follows
TagMatch(s, p) ==
    LET q == IF p + 1 <= Len(s) /\ s[p + 1] = "/" THEN p + 2 ELSE p + 1
        k == RunEnd(s, q, WordChars)
        m == Find(s, k, {">"})
        slash == m - 1 >= k /\ s[m - 1] = "/"
    IN  IF p > Len(s) \/ s[p] # "<" \/ k = q \/ m > Len(s) THEN NoMatch
        ELSE [ok |-> TRUE,
              tag_close |-> Str(IF q = p + 2 THEN <<"/">> ELSE << >>),
              tag_name |-> Str(SubSeq(s, q, k - 1)),
              attrs |-> Str(SubSeq(s, k, IF slash THEN m - 2 ELSE m - 1)),
              self_close |-> Str(IF slash THEN <<"/">> ELSE << >>),
              text |-> None,
              end |-> m + 1]

\* the second alternative tried at position p: the longest run without '<'
TextMatch(s, p) ==
    [ok |-> TRUE, tag_close |-> None, tag_name |-> None, attrs |-> None,
     self_close |-> None, text |-> Str(SubSeq(s, p, Find(s, p, {"<"}) - 1)),
     end |-> Find(s, p, {"<"})]

\* pattern.finditer: the next match at or after position p
RECURSIVE NextMatch(_, _)
NextMatch(s, p) ==
    IF p > Len(s) THEN NoMatch
    ELSE IF s[p] # "<" THEN TextMatch(s, p)
    ELSE IF TagMatch(s, p).ok THEN TagMatch(s, p)
    ELSE NextMatch(s, p + 1)

\* text.strip()
RECURSIVE LStrip(_)
LStrip(s) == IF Len(s) > 0 /\ s[1] \in Whitespace THEN LStrip(Tail(s)) ELSE s

RECURSIVE RStrip(_)
RStrip(s) ==
    IF Len(s) > 0 /\ s[Len(s)] \in Whitespace THEN RStrip(SubSeq(s, 1, Len(s) - 1)) ELSE s

Strip(s) == RStrip(LStrip(s))

\* text.strip() alone: the newlines inside the text are kept
strip_only(text) == Strip(text)

\* text.strip().replace('\n', ' ')
clean_text(text) == [i \in 1..Len(Strip(text)) |-> IF Strip(text)[i] = NL THEN " " ELSE Strip(text)[i]]

s_for == <<"f","o","r">>
s_for_ == <<"f","o","r","_">>
s_type == <<"t","y","p","e">>
s_type_ == <<"t","y","p","e","_">>

\* attr_map.get(name, name)
py_name(name) ==
    CASE name = s_class -> s_klass
      [] name = s_for -> s_for_
      [] name = s_async -> s_async_
      [] name = s_type -> s_type_
      [] OTHER -> name

Quotes == {"\"", "'"}

\* re.findall('(\w+)=["\'](.*?)["\']', attrs) tried at position p: the longest
\* word, '=', a quote, then the shortest text without a newline that a quote
\* follows
PairMatch(s, p) ==
    LET k == RunEnd(s, p, WordChars)
        e == Find(s, k + 2, Quotes \cup {NL})
    IN  IF k = p \/ k + 1 > Len(s) \/ s[k] # "=" \/ s[k + 1] \notin Quotes
           \/ e > Len(s) \/ s[e] = NL
        THEN NoMatch
        ELSE [ok |-> TRUE, name |-> SubSeq(s, p, k - 1),
              value |-> SubSeq(s, k + 2, e - 1), end |-> e + 1]

\* the same loop keeping the first value stored under a name
RECURSIVE attrs_dict_first_wins(_, _, _)
attrs_dict_first_wins(s, p, dict) ==
    IF p > Len(s) THEN dict
    ELSE IF PairMatch(s, p).ok
    THEN attrs_dict_first_wins(s, PairMatch(s, p).end,
             IF DictHas(dict, Str(py_name(PairMatch(s, p).name))) THEN dict
             ELSE DictSet(dict, Str(py_name(PairMatch(s, p).name)),
                          Str(PairMatch(s, p).value)))
    ELSE attrs_dict_first_wins(s, p + 1, dict)

\* the loop over the findall results, filling attrs_dict
RECURSIVE attrs_dict(_, _, _)
attrs_dict(s, p, dict) ==
    IF p > Len(s) THEN dict
    ELSE IF PairMatch(s, p).ok
    THEN attrs_dict(s, PairMatch(s, p).end,
                    DictSet(dict, Str(py_name(PairMatch(s, p).name)),
                            Str(PairMatch(s, p).value)))
    ELSE attrs_dict(s, p + 1, dict)

\* _convert_attrs(attrs): ', '.join of k="v" over attrs_dict
convert_attrs(attrs) ==
    LET d == attrs_dict(attrs, 1, << >>)
    IN  Join(<<",", " ">>,
             [i \in 1..Len(d) |-> d[i][1].s \o <<"=", "\"">> \o d[i][2].s \o <<"\"">>])

(***************************************************************************)
(* derender._parse_section, one turn of its loop per step, and SpecScan:   *)
(* the scan of every text made of a few pieces of markup.                  *)
(***************************************************************************)
MaxChunks == 3   \* pieces of markup in the texts scanned by SpecScan

\* "    " * indent
RECURSIVE Indent(_)
Indent(indent) == IF indent <= 0 THEN << >> ELSE <<" ", " ", " ", " ">> \o Indent(indent - 1)

s_com == <<"c","o","m",".">>

\* f'{"    " * indent}com.{section}.{tag_name}({attr_str})', without the indent
element_line_flat(indent, section, tag_name, attr_str) ==
    s_com \o section \o <<".">> \o tag_name \o <<"(">> \o attr_str \o <<")">>

\* f'{"    " * indent}com.{section}.{tag_name}({attr_str})'
element_line(indent, section, tag_name, attr_str) ==
    Indent(indent) \o s_com \o section \o <<".">> \o tag_name \o <<"(">> \o attr_str \o <<")">>

\* f'{"    " * indent}com.{section}.text("{clean_text}")'
text_line(indent, section, clean) ==
    Indent(indent) \o s_com \o section \o <<".","t","e","x","t","(","\"">> \o clean \o <<"\"",")">>

\* a closing tag that pops whatever name is on top of the stack
closes_any(stack, tag_name) == Len(stack) > 0

\* if stack and stack[-1] == tag_name
closes(stack, tag_name) == Len(stack) > 0 /\ stack[Len(stack)] = tag_name

\* an opening tag that is pushed unless it is self-closed or a void element
pushes_unless_void(tag_name, self_close) ==
    ~Truthy(self_close) /\ tag_name.s \notin VOID_ELEMENTS

\* if not self_close
pushes(tag_name, self_close) == ~Truthy(self_close)

\* a decrement whose floor is 2: max(2, indent - 1)
floor_decrement_at_two(indent) == IF indent - 1 > 2 THEN indent - 1 ELSE 2

\* max(1, indent - 1)
floor_decrement(indent) == IF indent - 1 > 1 THEN indent - 1 ELSE 1

\* the body of the loop for one match m, on the locals st of the call
loop_body(st, m) ==
    IF Truthy(m.text)
    THEN [st EXCEPT
            !.lines = IF Len(clean_text(m.text.s)) > 0
                      THEN Append(@, text_line(st.indent, st.section, clean_text(m.text.s)))
                      ELSE @]
    ELSE IF Truthy(m.tag_close)
    THEN IF closes(st.stack, m.tag_name.s)
         THEN [st EXCEPT !.stack = SubSeq(@, 1, Len(@) - 1),
                         !.indent = floor_decrement(@)]
         ELSE st
    ELSE [st EXCEPT
            !.lines = Append(@, element_line(st.indent, st.section, m.tag_name.s,
                                             convert_attrs(m.attrs.s))),
            !.stack = IF pushes(m.tag_name, m.self_close) THEN Append(@, m.tag_name.s) ELSE @,
            !.indent = IF pushes(m.tag_name, m.self_close) THEN @ + 1 ELSE @]

\* the body of the loop for one match m of the scan in progress
parse_match(m) == loop_body(scan, m)

\* one turn of `for match in pattern.finditer(content)`, or the end of the
\* loop and `return lines` when no match is left
ScanStep ==
    /\ scan.pos >= 1 /\ ~scan.done
    /\ LET m == NextMatch(scan.content, scan.pos)
       IN  scan' = IF m.ok
                   THEN [parse_match(m) EXCEPT !.pos = m.end, !.match = m]
                   ELSE [scan EXCEPT !.pos = Len(scan.content) + 1, !.match = NoMatch,
                                     !.done = TRUE]
    /\ UNCHANGED <<nodes, html, ret, container, ghost>>

c_div == <<"<","d","i","v",">">>
c_div_end == <<"<","/","d","i","v",">">>
c_p == <<"<","p",">">>
c_p_end == <<"<","/","p",">">>
c_br == <<"<","b","r",">">>
c_br_slash == <<"<","b","r","/",">">>
c_Hello == <<"H","e","l","l","o">>
c_blank == <<" ", "\n">>
c_p_class == <<"<","p"," ","c","l","a","s","s","=","\"","x","\"",">">>

Chunks == {c_div, c_div_end, c_p, c_p_end, c_br, c_br_slash, c_Hello, c_blank, c_p_class}

\* '<div><p>Hello</p></div>'
Scenario4 == c_div \o c_p \o c_Hello \o c_p_end \o c_div_end

ScanInputs ==
    {Concat(cs) : cs \in UNION {[1..k -> Chunks] : k \in 0..MaxChunks}} \cup {Scenario4}

\* _parse_section(content, section) at its entry: lines = [], indent = 1, stack = []
InitScan ==
    /\ \E content \in ScanInputs :
          scan = [content |-> content, section |-> s_body, pos |-> 1, lines |-> << >>,
                  indent |-> 1, stack |-> << >>, match |-> NoMatch, done |-> FALSE]
    /\ nodes = << >>
    /\ html = NoDocument
    /\ ret = NoCall
    /\ container = NoContainer
    /\ ghost = NoGhost

SpecScan == InitScan /\ [][ScanStep]_vars

\* the step consumed a closing tag (a match whose first group is '/')
ClosingTagStep == scan'.match.ok /\ Truthy(scan'.match.tag_close)

\* the step consumed an opening tag
OpeningTagStep ==
    scan'.match.ok /\ ~Truthy(scan'.match.text) /\ ~Truthy(scan'.match.tag_close)

\* C18: a closing tag whose name is not the name on top of the open-tag stack
\* (the stack empty, or the name only deeper in it) leaves stack and indent
\* as they are; a closing tag equal to the top pops one entry and lowers
\* indent by one; neither emits a line nor ends the scan
C18_StrayCloserIgnored ==
    [][ ClosingTagStep =>
          /\ scan'.lines = scan.lines
          /\ ~scan'.done
          /\ IF Len(scan.stack) > 0 /\ scan.stack[Len(scan.stack)] = scan'.match.tag_name.s
             THEN /\ scan'.stack = SubSeq(scan.stack, 1, Len(scan.stack) - 1)
                  /\ scan'.indent = scan.indent - 1
             ELSE /\ scan'.stack = scan.stack
                  /\ scan'.indent = scan.indent
      ]_vars

\* C18 witness: the closing tag just consumed names an element that is open
\* deeper in the stack but not on top, and nothing was popped
C18_Witness ==
    /\ scan.pos > 1 /\ scan.match.ok /\ Truthy(scan.match.tag_close)
    /\ Len(scan.stack) = 2
    /\ scan.stack[1] = scan.match.tag_name.s
    /\ scan.stack[2] # scan.match.tag_name.s
    /\ scan.indent = 3

\* C19: an opening tag emits one element line, indented by the indent held
\* before the tag; it is pushed and indent grows by one exactly when the
\* character before its '>' is not '/', void element or not; otherwise stack
\* and indent stay as they are
C19_OpeningTagPushedUnlessSlashed ==
    [][ OpeningTagStep =>
          /\ Len(scan'.lines) = Len(scan.lines) + 1
          /\ SubSeq(scan'.lines, 1, Len(scan.lines)) = scan.lines
          /\ IsPrefix(Indent(scan.indent) \o s_com, scan'.lines[Len(scan'.lines)])
          /\ IF scan.content[scan'.pos - 2] # "/"
             THEN /\ scan'.stack = Append(scan.stack, scan'.match.tag_name.s)
                  /\ scan'.indent = scan.indent + 1
             ELSE /\ scan'.stack = scan.stack
                  /\ scan'.indent = scan.indent
      ]_vars

\* C19 witness: '<br>' was pushed, and the element that follows it was emitted
\* one level deeper
C19_Witness ==
    /\ Len(scan.stack) = 2 /\ scan.stack[1] = s_br
    /\ Len(scan.lines) = 2
    /\ scan.lines[1] = Indent(1) \o s_com \o s_body \o <<".","b","r","(",")">>
    /\ IsPrefix(Indent(2) \o s_com, scan.lines[2])
    /\ scan.indent = 3

\* C20: the scan of '<div><p>Hello</p></div>' for section body ends with three
\* lines, com.body.div() at depth 1, com.body.p() at depth 2 and
\* com.body.text("Hello") at depth 3, each after depth times four spaces, and
\* with an empty stack; until then only the lines of the tokens consumed
C20_Scenario4Lines ==
    LET expected ==
            << Indent(1) \o s_com \o s_body \o <<".","d","i","v","(",")">>,
               Indent(2) \o s_com \o s_body \o <<".","p","(",")">>,
               Indent(3) \o s_com \o s_body
                   \o <<".","t","e","x","t","(","\"","H","e","l","l","o","\"",")">> >>
    IN  (scan.pos >= 1 /\ scan.content = Scenario4 /\ scan.section = s_body) =>
            /\ Len(scan.lines) <= 3
            /\ scan.lines = SubSeq(expected, 1, Len(scan.lines))
            /\ scan.done => (scan.lines = expected /\ scan.stack = << >>)

\* C20 witness: the scan of '<div><p>Hello</p></div>' has ended with three lines
C20_Witness ==
    /\ scan.pos >= 1 /\ scan.content = Scenario4 /\ scan.done
    /\ Len(scan.lines) = 3

(***************************************************************************)
(* derender.document_to_golia, the driver of the transpiler, and           *)
(* SpecTranspile: one call on every text made of a few pieces of markup.   *)
(* A character outside ASCII is written as its code point, "u90E8".        *)
(***************************************************************************)
MaxParts == 4   \* pieces of markup in the texts given to document_to_golia

\* _parse_section(content, section): the loop run to its end, `return lines`
RECURSIVE scan_loop(_)
scan_loop(st) ==
    IF NextMatch(st.content, st.pos).ok
    THEN scan_loop([loop_body(st, NextMatch(st.content, st.pos))
                       EXCEPT !.pos = NextMatch(st.content, st.pos).end])
    ELSE st.lines

parse_section(content, section) ==
    scan_loop([content |-> content, section |-> section, pos |-> 1, lines |-> << >>,
               indent |-> 1, stack |-> << >>])

\* the text s holds pat at position i
At(s, i, pat) == i >= 1 /\ i + Len(pat) - 1 <= Len(s) /\ SubSeq(s, i, i + Len(pat) - 1) = pat

\* the first position >= from where s holds pat, 0 if none
RECURSIVE FindSub(_, _, _)
FindSub(s, from, pat) ==
    IF from + Len(pat) - 1 > Len(s) THEN 0
    ELSE IF At(s, from, pat) THEN from
    ELSE FindSub(s, from + 1, pat)

\* the last position where s holds pat, 0 if none
RECURSIVE FindLastSub(_, _, _)
FindLastSub(s, from, pat) ==
    IF from < 1 THEN 0
    ELSE IF At(s, from, pat) THEN from
    ELSE FindLastSub(s, from - 1, pat)

OpenTag(name) == <<"<">> \o name \o <<">">>
CloseTag(name) == <<"<", "/">> \o name \o <<">">>

s_doctype == <<"<","!","D","O","C","T","Y","P","E"," ","h","t","m","l",">">>

\* a search with a greedy group, '<name>(.*)</name>': up to the last closing tag
search_section_greedy(text, name) ==
    LET p == FindSub(text, 1, OpenTag(name))
        e == IF p = 0 THEN 0 ELSE FindLastSub(text, Len(text), CloseTag(name))
    IN  IF p = 0 \/ e < p + Len(OpenTag(name)) THEN None
        ELSE Str(SubSeq(text, p + Len(OpenTag(name)), e - 1))

\* re.search('<name>(.*?)</name>', text, re.DOTALL): None, or group(1) of the
\* leftmost match, which ends at the first closing tag after its opening tag
search_section(text, name) ==
    LET p == FindSub(text, 1, OpenTag(name))
        e == IF p = 0 THEN 0 ELSE FindSub(text, p + Len(OpenTag(name)), CloseTag(name))
    IN  IF p = 0 \/ e = 0 THEN None
        ELSE Str(SubSeq(text, p + Len(OpenTag(name)), e - 1))

line_import == <<"f","r","o","m"," ","g","o","l","i","a"," ","i","m","p","o","r","t"," ",
                 "C","o","n","t","a","i","n","e","r">>
line_com == <<"c","o","m"," ","="," ","C","o","n","t","a","i","n","e","r","(",")","\n">>
line_doctype == <<"#"," ","u81EA","u52A8","u6DFB","u52A0","u6587","u6863","u7C7B","u578B",
                  "u58F0","u660E">>
line_head == <<"\n","#"," ","H","e","a","d"," ","u90E8","u5206">>
line_body == <<"\n","#"," ","B","o","d","y"," ","u90E8","u5206">>
line_final == <<"\n","#"," ","u751F","u6210","u6700","u7EC8","u6587","u6863">>
line_render == <<"r","e","n","d","e","r","e","d"," ","="," ","c","o","m",".",
                 "r","e","n","d","e","r","(",")">>

\* the list `code` of document_to_golia(text) before the final join
document_code(text) ==
    LET head_content == search_section(text, s_head)
        body_content == search_section(text, s_body)
    IN  <<line_import, line_com>>
        \o (IF FindSub(text, 1, s_doctype) # 0 THEN <<line_doctype>> ELSE << >>)
        \o (IF head_content # None
            THEN <<line_head>> \o parse_section(head_content.s, s_head) ELSE << >>)
        \o (IF body_content # None
            THEN <<line_body>> \o parse_section(body_content.s, s_body) ELSE << >>)
        \o <<line_final, line_render>>

\* document_to_golia(text): '\n'.join(code)
document_to_golia(text) == Join(<<NL>>, document_code(text))

c_head == OpenTag(s_head)
c_head_end == CloseTag(s_head)
c_body == OpenTag(s_body)
c_body_end == CloseTag(s_body)

Parts == {c_head, c_head_end, c_body, c_body_end, c_p, s_doctype}

TranspileInputs == {Concat(cs) : cs \in UNION {[1..k -> Parts] : k \in 0..MaxParts}}

\* the call document_to_golia(text) about to run
InitTranspile ==
    /\ \E text \in TranspileInputs : ret = [op |-> "call", text |-> text]
    /\ nodes = << >>
    /\ html = NoDocument
    /\ Idle

\* the call runs to its return; exc is the exception it raised, "" if none
Transpile ==
    /\ ret.op = "call"
    /\ ret' = [op |-> "document_to_golia", text |-> ret.text, exc |-> "",
               out |-> document_to_golia(ret.text)]
    /\ UNCHANGED <<nodes, html, others>>

SpecTranspile == InitTranspile /\ [][Transpile]_vars

\* the positions of '<name>' that a '</name>' follows somewhere
MatchedOpens(text, name) ==
    {i \in 1..Len(text) :
        /\ At(text, i, OpenTag(name))
        /\ \E j \in (i + Len(OpenTag(name)))..Len(text) : At(text, j, CloseTag(name))}

\* the leftmost of them
FirstOpen(text, name) ==
    CHOOSE i \in MatchedOpens(text, name) : \A k \in MatchedOpens(text, name) : i <= k

\* the first '</name>' after it
FirstClose(text, name) ==
    CHOOSE j \in (FirstOpen(text, name) + Len(OpenTag(name)))..Len(text) :
        /\ At(text, j, CloseTag(name))
        /\ \A k \in (FirstOpen(text, name) + Len(OpenTag(name)))..(j - 1) :
               ~At(text, k, CloseTag(name))

\* the lines a section contributes: none if it has no match, else its
\* comment line and the scan of the text inside the first match
SectionBlock(text, name, comment) ==
    IF MatchedOpens(text, name) = {} THEN << >>
    ELSE <<comment>>
         \o parse_section(SubSeq(text, FirstOpen(text, name) + Len(OpenTag(name)),
                                 FirstClose(text, name) - 1), name)

IsSuffix(p, s) == Len(p) <= Len(s) /\ SubSeq(s, Len(s) - Len(p) + 1, Len(s)) = p

\* C21: document_to_golia returns, without raising, the two header lines,
\* then the doctype comment if the text holds '<!DOCTYPE html>', then the
\* head block if and only if '<head>...</head>' has a match, then the body
\* block if and only if '<body>...</body>' has a match, each block made of
\* its comment line and the scan of the first match only, then the two
\* closing lines that end with the render statement; a section without a
\* match contributes no line, and the head block comes first whatever the
\* order of the sections in the text
C21_DriverEmitsHeadThenBody ==
    ret.op = "document_to_golia" =>
        /\ ret.exc = ""
        /\ IsPrefix(line_import \o <<NL>> \o line_com \o <<NL>>, ret.out)
        /\ IsSuffix(<<NL>> \o line_render, ret.out)
        /\ ret.out = Join(<<NL>>,
                          <<line_import, line_com>>
                          \o (IF \E i \in 1..Len(ret.text) : At(ret.text, i, s_doctype)
                              THEN <<line_doctype>> ELSE << >>)
                          \o SectionBlock(ret.text, s_head, line_head)
                          \o SectionBlock(ret.text, s_body, line_body)
                          \o <<line_final, line_render>>)

\* C21 witness: the text is '<body></body><head></head>', and the output has
\* the head comment before the body comment, between the header lines and
\* the closing lines
C21_Witness ==
    /\ ret.op = "document_to_golia"
    /\ ret.text = c_body \o c_body_end \o c_head \o c_head_end
    /\ ret.out = Join(<<NL>>, <<line_import, line_com, line_head, line_body,
                                line_final, line_render>>)

(***************************************************************************)
(* SpecScript: Component.add_external_script called on the Component's     *)
(* document, with every combination of its flags.                          *)
(***************************************************************************)
MaxScriptNodes == 4   \* HTMLNode objects on the heap in SpecScript (the roots included)

s_src == <<"s","r","c">>
s_defer == <<"d","e","f","e","r">>

\* `value or None`
or_None(value) == IF Truthy(value) THEN value ELSE None

\* Component.add_external_script(src, async_, defer, in_head)
add_external_script(src, async_, defer, in_head) ==
    LET attrs == Dict(<< <<Str(s_src), src>>,
                         <<Str(s_async), or_None(async_)>>,
                         <<Str(s_defer), or_None(defer)>> >>)
        parent == IF in_head THEN html.head_root ELSE current_or_body
    IN  /\ nodes' = add_child_nodes(parent, Str(s_script), Str(s_empty), attrs)
        /\ ret' = [op |-> "add_external_script", src |-> src, async_ |-> async_,
                   defer |-> defer, in_head |-> in_head, node |-> Len(nodes) + 1]
        /\ UNCHANGED <<html, others>>

NextScript ==
    \E src \in {Str(s_x), Str(s_v)}, async_ \in {PyFalse, PyTrue},
       defer \in {PyFalse, PyTrue}, in_head \in BOOLEAN :
        /\ Len(nodes) < MaxScriptNodes
        /\ add_external_script(src, async_, defer, in_head)

SpecScript == Init /\ [][NextScript]_vars

\* C22 (as claimed): the script element just added renders the token 'async'
\* if and only if async_ is true and the token 'defer' if and only if defer
\* is true; with both false its only attribute token is src="..."
C22_ScriptFlagsRenderIffSet ==
    ret.op = "add_external_script" =>
        /\ HasToken(ret.node, s_async) <=> (ret.async_ = PyTrue)
        /\ HasToken(ret.node, s_defer) <=> (ret.defer = PyTrue)
        /\ (ret.async_ = PyFalse /\ ret.defer = PyFalse) =>
              AttrParts(nodes[ret.node])
                  = << s_src \o <<"=", "\"">> \o ret.src.s \o <<"\"">> >>

(***************************************************************************)
(* The layout of render, checked on every node of every tree of            *)
(* SpecRender at every indent.                                             *)
(***************************************************************************)
\* the closing tag of a node
ClosingTag(node) == <<"<", "/">> \o node.tag.s \o <<">">>

\* the renders of the children of node, in child order
ChildRenders(node, indent_level, parent_inline) ==
    [i \in 1..Len(node.children) |->
        render(nodes, node.children[i], indent_level, parent_inline)]

\* C23: a non-void element with a child that is not effectively inline
\* renders, at indent k with parent_inline false, as k tabs, the opening tag,
\* a newline, its children's render(k + 1, false) joined by single newlines
\* in child order, a newline, k tabs and the closing tag; a text node renders
\* as k tabs and its content, with no newline after it; an effectively inline
\* element with a child holds its children's render(0, true) one after the
\* other with nothing between them
C23_RenderLayout ==
    \A n \in Ids, k \in Indents :
        /\ nodes[n].is_text_node =>
              \A parent_inline \in BOOLEAN :
                  render(nodes, n, k, parent_inline) = Rep(TAB, k) \o nodes[n].content
        /\ (~nodes[n].is_text_node /\ ~nodes[n].is_void /\ Len(nodes[n].children) > 0) =>
              /\ (~nodes[n].inline /\ ~nodes[n].force_inline) =>
                    render(nodes, n, k, FALSE)
                        = OpeningTag(nodes[n], k) \o <<">">> \o <<NL>>
                          \o Join(<<NL>>, ChildRenders(nodes[n], k + 1, FALSE))
                          \o <<NL>> \o Rep(TAB, k) \o ClosingTag(nodes[n])
              /\ \A parent_inline \in BOOLEAN :
                    (nodes[n].inline \/ nodes[n].force_inline \/ parent_inline) =>
                        render(nodes, n, k, parent_inline)
                            = OpeningTag(nodes[n], k) \o <<">">>
                              \o Concat(ChildRenders(nodes[n], 0, TRUE))
                              \o ClosingTag(nodes[n])

\* C23 witness: a div holding a text node and a span that holds a text node
\* renders as '<div>\n\thi\n\t<span>hi</span>\n</div>'
C23_Witness ==
    /\ Len(nodes) = 4
    /\ nodes[1].children = <<2, 3>> /\ nodes[2].is_text_node
    /\ nodes[3].tag = Str(s_span) /\ nodes[3].children = <<4>> /\ nodes[4].is_text_node
    /\ ~nodes[1].force_inline
    /\ render(nodes, 1, 0, FALSE)
         = <<"<","d","i","v",">", NL, TAB, "h","i", NL, TAB, "<","s","p","a","n",">",
             "h","i", "<","/","s","p","a","n",">", NL, "<","/","d","i","v",">">>

(***************************************************************************)
(* SpecContent: a tree grown under one root by add_child, whose elements   *)
(* are created with a content of their own.                                *)
(***************************************************************************)
MaxContentNodes == 4   \* HTMLNode objects in the trees of SpecContent

ContentArgs ==
    { [tag |-> None, content |-> Str(s_hi), attr |-> None],
      [tag |-> Str(s_p), content |-> Str(s_x), attr |-> None],
      [tag |-> Str(s_span), content |-> Str(s_x), attr |-> None],
      [tag |-> Str(s_p), content |-> Str(s_empty), attr |-> None] }

ContentAddChild ==
    \E self \in Ids, a \in ContentArgs :
        /\ Len(nodes) < MaxContentNodes
        /\ ~nodes[self].is_text_node
        /\ add_child(self, a.tag, a.content, a.attr)

SpecContent == InitRender /\ [][ContentAddChild]_vars

\* node n with its own content emptied
Contentless(n) == [nodes EXCEPT ![n].content = << >>]

\* C24: a non-void element without children renders as its opening tag, its
\* content (nothing when the content is empty) and its closing tag; once it
\* has a child, its render is the one of the same element with an empty
\* content: the content is emitted only when there is no child
C24_ContentOnlyWithoutChildren ==
    \A n \in Ids, k \in Indents, parent_inline \in BOOLEAN :
        (~nodes[n].is_text_node /\ ~nodes[n].is_void) =>
            IF Len(nodes[n].children) = 0
            THEN render(nodes, n, k, parent_inline)
                    = OpeningTag(nodes[n], k) \o <<">">> \o nodes[n].content
                      \o ClosingTag(nodes[n])
            ELSE render(nodes, n, k, parent_inline)
                    = render(Contentless(n), n, k, parent_inline)

\* C24 witness: a p created with the content 'x' was rendered as '<p>x</p>'
\* until it received a text node, and now renders as '<p>\n\thi\n</p>'
C24_Witness ==
    /\ Len(nodes) >= 3
    /\ nodes[2].tag = Str(s_p) /\ nodes[2].content = s_x
    /\ nodes[2].children = <<3>> /\ nodes[3].is_text_node
    /\ ~nodes[2].force_inline
    /\ render(nodes, 2, 0, FALSE) = <<"<","p",">", NL, TAB, "h","i", NL, "<","/","p",">">>
    /\ render([nodes EXCEPT ![2].children = << >>], 2, 0, FALSE)
          = <<"<","p",">", "x", "<","/","p",">">>

(***************************************************************************)
(* HTML.get_current_depth, checked on every document of SpecDoc.           *)
(***************************************************************************)
\* the loop of get_current_depth counting up to the root of the tree: the
\* body root itself is counted
RECURSIVE depth_to_root(_)
depth_to_root(node) ==
    IF node = 0 THEN 0 ELSE 1 + depth_to_root(nodes[node].parent)

\* while node is not None and node != self.body_root: depth += 1; node = node.parent
RECURSIVE depth_from(_)
depth_from(node) ==
    IF node = 0 \/ node = html.body_root THEN 0
    ELSE 1 + depth_from(nodes[node].parent)

\* HTML.get_current_depth()
get_current_depth(node) == depth_from(node)

\* C25: whatever start_nested_element and end_nested_element calls were made,
\* get_current_depth() is the number of scopes started and not yet ended,
\* and so it is 0 exactly when no scope is open
C25_DepthCountsOpenScopes ==
    /\ get_current_depth(html.current_node) = ghost.open
    /\ (get_current_depth(html.current_node) = 0) <=> (ghost.open = 0)

\* C25 witness: three scopes were started and one was ended without raising;
\* two are open and the depth is 2
C25_Witness ==
    /\ ret.op = "end_nested_element" /\ ret.exc = "none" /\ ret.open = 3
    /\ ghost.open = 2
    /\ get_current_depth(html.current_node) = 2

\* the step consumed a text token (a match of the second alternative)
TextStep == scan'.match.ok /\ Truthy(scan'.match.text)

\* the positions of the characters of t that are not white space
Inked(t) == {i \in 1..Len(t) : t[i] \notin Whitespace}

\* t from its first to its last such character, every newline made a space
Trimmed(t) ==
    LET first == CHOOSE i \in Inked(t) : \A j \in Inked(t) : i <= j
        last == CHOOSE i \in Inked(t) : \A j \in Inked(t) : i >= j
    IN  [i \in 1..(last - first + 1) |->
            IF t[first + i - 1] = NL THEN " " ELSE t[first + i - 1]]

\* C26: a text token, the characters of the input between two positions of
\* the scan, emits no line when it is white space only, and otherwise exactly
\* one line: the indent of the current level, then com.<section>.text("...")
\* holding the token without its leading and trailing white space and with
\* each of its newlines replaced by a space; stack and indent do not change
C26_TextTokenEmitsTrimmedLine ==
    [][ TextStep =>
          LET token == SubSeq(scan.content, scan.pos, scan'.pos - 1)
          IN  /\ scan'.stack = scan.stack
              /\ scan'.indent = scan.indent
              /\ scan'.lines =
                    IF Inked(token) = {} THEN scan.lines
                    ELSE Append(scan.lines,
                                Indent(scan.indent) \o s_com \o scan.section
                                \o <<".","t","e","x","t","(","\"">> \o Trimmed(token)
                                \o <<"\"",")">>)
      ]_vars

\* C26 witness: the token 'Hello \nHello' was consumed and gave the line
\* com.body.text("Hello  Hello") at depth 1
C26_Witness ==
    /\ scan.pos > 1 /\ scan.match.ok
    /\ scan.match.text = Str(c_Hello \o c_blank \o c_Hello)
    /\ scan.stack = << >> /\ scan.indent = 1
    /\ scan.lines[Len(scan.lines)]
          = Indent(1) \o s_com \o s_body
            \o <<".","t","e","x","t","(","\"","H","e","l","l","o"," "," ",
                 "H","e","l","l","o","\"",")">>

(***************************************************************************)
(* SpecConvert: _convert_attrs applied to the attribute text of a tag that *)
(* is written as a few name="value" pairs separated by spaces.             *)
(***************************************************************************)
MaxPairs == 3   \* name="value" pairs in the attribute texts of SpecConvert

PairInputs ==
    { [name |-> s_class, value |-> <<"a">>, quote |-> "\""],
      [name |-> s_klass, value |-> <<"b">>, quote |-> "'"],
      [name |-> s_id, value |-> <<"i">>, quote |-> "\""],
      [name |-> s_class, value |-> <<"c">>, quote |-> "\""],
      [name |-> s_for, value |-> <<"f">>, quote |-> "\""],
      [name |-> s_async, value |-> <<"a">>, quote |-> "'"],
      [name |-> s_type, value |-> <<"t">>, quote |-> "\""] }

\* the attribute text of a tag that holds these pairs: ' a="x" b="y"'
AttrsText(pairs) ==
    Concat([i \in 1..Len(pairs) |->
               <<" ">> \o pairs[i].name \o <<"=", pairs[i].quote>> \o pairs[i].value
               \o <<pairs[i].quote>>])

InitConvert ==
    /\ \E pairs \in UNION {[1..k -> PairInputs] : k \in 0..MaxPairs} :
          ret = [op |-> "call", pairs |-> pairs, attrs |-> AttrsText(pairs)]
    /\ nodes = << >>
    /\ html = NoDocument
    /\ Idle

\* the call _convert_attrs(attrs) runs to its return
ConvertAttrs ==
    /\ ret.op = "call"
    /\ ret' = [op |-> "convert_attrs", pairs |-> ret.pairs, attrs |-> ret.attrs,
               out |-> convert_attrs(ret.attrs)]
    /\ UNCHANGED <<nodes, html, others>>

SpecConvert == InitConvert /\ [][ConvertAttrs]_vars

\* the positions of the pairs whose builder name occurs there for the first time
FirstOfName(pairs) ==
    SelectSeq([i \in 1..Len(pairs) |-> i],
              LAMBDA i : \A j \in 1..(i - 1) : py_name(pairs[j].name) # py_name(pairs[i].name))

\* the last position of a pair with the builder name of the pair at position i
LastOfName(pairs, i) ==
    CHOOSE k \in 1..Len(pairs) :
        /\ py_name(pairs[k].name) = py_name(pairs[i].name)
        /\ \A m \in (k + 1)..Len(pairs) : py_name(pairs[m].name) # py_name(pairs[i].name)

\* C27: the output of _convert_attrs has one name="value" item per distinct
\* builder name, separated by ', ', in the order in which the names first
\* occur in the tag; the value of an item is the value of the last pair that
\* converts to its name, whether that pair repeats the name or has another
\* name mapped to it
C27_LastPairWinsAtFirstPosition ==
    ret.op = "convert_attrs" =>
        LET first == FirstOfName(ret.pairs)
        IN  ret.out = Join(<<",", " ">>,
                           [j \in 1..Len(first) |->
                               py_name(ret.pairs[first[j]].name) \o <<"=", "\"">>
                               \o ret.pairs[LastOfName(ret.pairs, first[j])].value
                               \o <<"\"">>])

\* C27 witness: ' class="a" id="i" klass='b'' gave 'klass="b", id="i"'
C27_Witness ==
    /\ ret.op = "convert_attrs"
    /\ Len(ret.pairs) = 3
    /\ ret.pairs[1].name = s_class /\ ret.pairs[1].value = <<"a">>
    /\ ret.pairs[2].name = s_id
    /\ ret.pairs[3].name = s_klass
    /\ ret.out = <<"k","l","a","s","s","=","\"","b","\"",",", " ",
                   "i","d","=","\"","i","\"">>

\* the HTML names of attr_map
RenameTable == {s_class, s_for, s_async, s_type}

\* C28: each of the four HTML names class, for, async and type is renamed by
\* the transpiler to a builder name that the renderer's key rules turn back
\* into the HTML name; the builder names are klass, for_, async_ and type_,
\* one per HTML name; so every pair of a converted tag whose name is in the
\* table comes out under a name that renders as the name it came in with
C28_RenameInvertedByRenderer ==
    /\ \A name \in RenameTable : ConvertedName(Str(py_name(name))) = Str(name)
    /\ {py_name(name) : name \in RenameTable} = {s_klass, s_for_, s_async_, s_type_}
    /\ \A a, b \in RenameTable : a # b => py_name(a) # py_name(b)
    /\ ret.op = "convert_attrs" =>
          \A i \in 1..Len(ret.pairs) :
              ret.pairs[i].name \in RenameTable =>
                  LET item == py_name(ret.pairs[i].name) \o <<"=">>
                  IN  /\ \E p \in 1..Len(ret.out) : At(ret.out, p, item)
                      /\ ConvertedName(Str(py_name(ret.pairs[i].name)))
                            = Str(ret.pairs[i].name)

\* C28 witness: ' for="f" async='a' type="t"' gave
\* 'for_="f", async_="a", type_="t"', and for_, async_ and type_ normalize to
\* for, async and type
C28_Witness ==
    /\ ret.op = "convert_attrs"
    /\ Len(ret.pairs) = 3
    /\ ret.pairs[1].name = s_for /\ ret.pairs[2].name = s_async /\ ret.pairs[3].name = s_type
    /\ ret.out = <<"f","o","r","_","=","\"","f","\"",",", " ",
                   "a","s","y","n","c","_","=","\"","a","\"",",", " ",
                   "t","y","p","e","_","=","\"","t","\"">>
    /\ ConvertedName(Str(s_for_)) = Str(s_for)
    /\ ConvertedName(Str(s_async_)) = Str(s_async)
    /\ ConvertedName(Str(s_type_)) = Str(s_type)

\* C29: at every step of the scan, indent is 1 + the number of names on the
\* stack; so it is at least 1, and wherever a closing tag can pop a name,
\* indent - 1 is at least 1 and max(1, indent - 1) is indent - 1
C29_IndentIsOnePlusStackDepth ==
    scan.pos >= 1 =>
        /\ scan.indent = 1 + Len(scan.stack)
        /\ scan.indent >= 1
        /\ Len(scan.stack) > 0 =>
              (scan.indent - 1 >= 1 /\ floor_decrement(scan.indent) = scan.indent - 1)

\* C29 witness: in '<div><p></p>' the closing tag of p was consumed and popped
\* p; the div is still open and indent is back to 2
C29_Witness ==
    /\ scan.pos > 1 /\ scan.match.ok /\ Truthy(scan.match.tag_close)
    /\ scan.match.tag_name = Str(s_p)
    /\ scan.content = c_div \o c_p \o c_p_end
    /\ scan.stack = <<s_div>>
    /\ scan.indent = 2

(***************************************************************************)
(* SpecMerge: the Container and a second Component, each given elements,   *)
(* and add_component called with the second Component or with the          *)
(* Container's own.                                                        *)
(***************************************************************************)
\* com.add_component(com.com)
MergeOwn == add_component([head_root |-> html.head_root, body_root |-> html.body_root])

NextMerge ==
    \/ BodyElement
    \/ OtherBodyElement
    \/ MergeOther
    \/ MergeOwn

SpecMerge == InitBuilder /\ [][NextMerge]_vars

\* C30 (as claimed): every call of add_component returns, and on return the
\* head and body roots of the container hold the children they had before
\* the call followed by the children the argument's roots had, in order
C30_AddComponentReturnsMerged ==
    ret.op = "add_component" =>
        /\ ret.exc = "none"
        /\ nodes[html.head_root].children = ret.head_before \o ret.arg_head
        /\ nodes[html.body_root].children = ret.body_before \o ret.arg_body

====
